---------------------------- MODULE Spec2Model ----------------------------
(***************************************************************************)
(* Model of the garment sizing core of the virtual try-on service          *)
(* (src/garment_sizing.py, class GarmentSizingSystem).                      *)
(*                                                                         *)
(* Units.  The program computes with floats in centimetres and score       *)
(* points.  The model keeps every length in tenths of a centimetre and     *)
(* every score in tenths of a point, so 93 cm is 930 and a score of 60 is  *)
(* 600.  Person chests are multiples of 0.5 cm and person heights are      *)
(* multiples of 2.5 cm; on these inputs every float operation of the       *)
(* program (subtraction, abs, * 10, * 5, height * 0.40) is exact, so the    *)
(* scaled integers are the program's values.                               *)
(***************************************************************************)
EXTENDS Integers, Sequences, FiniteSets, TLC

VARIABLES
    shirt_measurements,  \* self.shirt_measurements: size -> GarmentMeasurements
    fit_tolerance,       \* self.fit_tolerance
    person_chest,        \* request input: chest measurement
    person_height,       \* request input: height
    gender,              \* request input: gender string (sequence of characters)
    recommendation,      \* frame of the last get_recommended_size call, or None
    analysis,            \* FitAnalysis returned by the last analyze_fit call, or None
    analysis_call,       \* the last analyze_fit call: its size argument and what it raised
    size_data,           \* dict returned by the last get_size_comparison_data call, or None
    other,               \* a second request (chest, height, gender), or None
    other_analysis,      \* FitAnalysis of the last analyze_fit call for it, or None
    person_image,        \* the caller's person image (a buffer), or None
    garment_image,       \* the caller's garment image (a buffer), or None
    pose_landmarks,      \* the caller's pose landmarks: None or a list of points
    rendered,            \* the last call of a compositing operation and its outcome, or None
    unreadable,          \* the image paths whose file cv2.imread cannot decode
    http,                \* the last HTTP request, its response and the body it ran, or None
    wait,                \* a call of KlingAIClient.wait_for_completion: its locals and outcome, or None
    pipeline             \* a run of the providers of /process: the calls made and the response, or None

vars == << shirt_measurements, fit_tolerance, person_chest, person_height, gender,
           recommendation, analysis, analysis_call, size_data, other, other_analysis,
           person_image, garment_image, pose_landmarks, rendered, unreadable, http,
           wait, pipeline >>

catalog_vars == << shirt_measurements, fit_tolerance >>
request_vars == << person_chest, person_height, gender, other >>
image_vars == << person_image, garment_image, pose_landmarks >>
visual_vars == << person_image, garment_image, pose_landmarks, rendered >>
service_vars == << unreadable, http, wait, pipeline >>
provider_vars == << wait, pipeline >>

\* Python's None, as a record so that it compares with the records it stands in for
None == [ none |-> TRUE ]

\* a raised exception, by the name of its class
Exception(class) == [ exception |-> class ]

-----------------------------------------------------------------------------
(* Bounds of the explored inputs (centimetres).                            *)

MinChest == 84
MaxChest == 112
MinHeight == 170
MaxHeight == 180

\* person chests: every half centimetre of MinChest..MaxChest
ChestValues == { 5 * k : k \in (2 * MinChest)..(2 * MaxChest) }

\* person heights: every 2.5 cm of MinHeight..MaxHeight
HeightValues == { h \in (10 * MinHeight)..(10 * MaxHeight) : h % 25 = 0 }

\* gender strings, as sequences of characters
Genders ==
    { << "m", "a", "l", "e" >>,
      << "f", "e", "m", "a", "l", "e" >>,
      << "u", "n", "i", "s", "e", "x" >>,
      << "M", "A", "L", "E" >>,
      << "o", "t", "h", "e", "r" >> }

\* the inputs of the two-request specification: a coarser grid of the same ranges
PairChests == { c \in ChestValues : c % 55 = 0 }
PairHeights == { h \in HeightValues : h % 50 = 0 }
PairGenders == { << "m", "a", "l", "e" >>, << "F", "e", "m", "a", "l", "e" >> }

\* a size argument that is no key of the catalog
UnknownSize == "XXXL"

-----------------------------------------------------------------------------
(* Enumerations and the catalog.                                           *)

\* class GarmentSize, in declaration order (also the dict's insertion order)
GarmentSize == << "XS", "S", "M", "L", "XL", "XXL" >>

GarmentSizes == { GarmentSize[i] : i \in DOMAIN GarmentSize }

\* class FitType
FitType == [ TIGHT |-> "tight", PERFECT |-> "perfect", LOOSE |-> "loose" ]

GarmentMeasurements(size, chest, length, shoulder, sleeve) ==
    [ size |-> size, chest_cm |-> 10 * chest, length_cm |-> 10 * length,
      shoulder_width_cm |-> 10 * shoulder, sleeve_length_cm |-> 10 * sleeve ]

\* GarmentSizingSystem.__init__: self.shirt_measurements
InitShirtMeasurements ==
    [ s \in GarmentSizes |->
        CASE s = "XS"  -> GarmentMeasurements("XS", 86, 66, 42, 59)
          [] s = "S"   -> GarmentMeasurements("S", 91, 68, 44, 61)
          [] s = "M"   -> GarmentMeasurements("M", 97, 70, 46, 63)
          [] s = "L"   -> GarmentMeasurements("L", 102, 72, 48, 65)
          [] s = "XL"  -> GarmentMeasurements("XL", 107, 74, 50, 67)
          [] s = "XXL" -> GarmentMeasurements("XXL", 112, 76, 52, 69) ]

\* GarmentSizingSystem.__init__: self.fit_tolerance
InitFitTolerance ==
    [ perfect_range |-> 20, loose_threshold |-> 80, tight_threshold |-> -30 ]

\* insertion order of the keys of a catalog built by __init__
CatalogOrder(measurements) ==
    SelectSeq(GarmentSize, LAMBDA s : s \in DOMAIN measurements)

-----------------------------------------------------------------------------
(* Helpers.                                                                *)

Abs(x) == IF x < 0 THEN -x ELSE x
Min(a, b) == IF a < b THEN a ELSE b
Max(a, b) == IF a > b THEN a ELSE b

UpperCase == << "A", "B", "C", "D", "E", "F", "G", "H", "I", "J", "K", "L", "M",
                "N", "O", "P", "Q", "R", "S", "T", "U", "V", "W", "X", "Y", "Z" >>
LowerCase == << "a", "b", "c", "d", "e", "f", "g", "h", "i", "j", "k", "l", "m",
                "n", "o", "p", "q", "r", "s", "t", "u", "v", "w", "x", "y", "z" >>

\* str.lower()
Lower(str) ==
    [ i \in DOMAIN str |->
        IF \E k \in DOMAIN UpperCase : UpperCase[k] = str[i]
        THEN LowerCase[CHOOSE k \in DOMAIN UpperCase : UpperCase[k] = str[i]]
        ELSE str[i] ]

-----------------------------------------------------------------------------
(* get_recommended_size                                                    *)

\* mutant: no comfort allowance added
TargetChestNoAllowance(chest_measurement, g) == chest_measurement

\* mutant: the female and male allowances exchanged
TargetChestSwapped(chest_measurement, g) ==
    IF Lower(g) = << "f", "e", "m", "a", "l", "e" >> THEN chest_measurement + 40
    ELSE IF Lower(g) = << "m", "a", "l", "e" >> THEN chest_measurement + 20
    ELSE chest_measurement + 30

\* lines 91-98: the gender-specific comfort allowance
TargetChest(chest_measurement, g) ==
    IF Lower(g) = << "f", "e", "m", "a", "l", "e" >> THEN chest_measurement + 20
    ELSE IF Lower(g) = << "m", "a", "l", "e" >> THEN chest_measurement + 40
    ELSE chest_measurement + 30

\* float('inf'): a value no absolute difference takes
Infinity == -1

\* mutant: difference <= min_difference, so the last of two equally close sizes wins
LessOrEqualMin(difference, min_difference) ==
    IF min_difference = Infinity THEN TRUE ELSE difference <= min_difference

\* line 106: difference < min_difference
LessThanMin(difference, min_difference) ==
    IF min_difference = Infinity THEN TRUE ELSE difference < min_difference

\* lines 104-108: the loop over self.shirt_measurements.items(), from position i,
\* with the locals (min_difference, best_size) in frame
RECURSIVE ClosestSizeLoop(_, _, _, _, _)
ClosestSizeLoop(measurements, order, i, target_chest, frame) ==
    IF i > Len(order) THEN frame
    ELSE LET difference == Abs(measurements[order[i]].chest_cm - target_chest)
         IN  ClosestSizeLoop(measurements, order, i + 1, target_chest,
                IF LessThanMin(difference, frame.min_difference)
                THEN [ min_difference |-> difference, best_size |-> order[i] ]
                ELSE frame)

\* the locals of get_recommended_size when it returns
RecommendedSizeFrame(measurements, chest_measurement, g) ==
    LET target_chest == TargetChest(chest_measurement, g)
        frame == ClosestSizeLoop(measurements, CatalogOrder(measurements), 1, target_chest,
                                 [ min_difference |-> Infinity, best_size |-> "M" ])
    IN  [ target_chest |-> target_chest,
          min_difference |-> frame.min_difference,
          best_size |-> frame.best_size ]

get_recommended_size(measurements, chest_measurement, g) ==
    RecommendedSizeFrame(measurements, chest_measurement, g).best_size

-----------------------------------------------------------------------------
(* analyze_fit                                                             *)

\* line 130
ChestDifference(garment_measurements, chest) == garment_measurements.chest_cm - chest

\* mutant: the shirt length taken as 0.45 of the height
LengthDifferenceRatio45(garment_measurements, height) ==
    garment_measurements.length_cm - ((height * 45) \div 100)

\* line 131: length_cm - person_height * 0.40
LengthDifference(garment_measurements, height) ==
    garment_measurements.length_cm - ((height * 4) \div 10)

\* mutant: the garment minus person difference read as person minus garment
ClassifyFitReversed(chest_difference, tolerance) ==
    IF -chest_difference <= tolerance.tight_threshold
    THEN [ fit_type |-> FitType.TIGHT,
           fit_description |-> "This size will be tight and may restrict movement" ]
    ELSE IF -chest_difference >= tolerance.loose_threshold
    THEN [ fit_type |-> FitType.LOOSE,
           fit_description |-> "This size will be loose and may look oversized" ]
    ELSE IF Abs(chest_difference) <= tolerance.perfect_range
    THEN [ fit_type |-> FitType.PERFECT,
           fit_description |-> "This size provides an excellent fit" ]
    ELSE IF -chest_difference > 0
    THEN [ fit_type |-> FitType.LOOSE,
           fit_description |-> "This size will be somewhat loose but comfortable" ]
    ELSE [ fit_type |-> FitType.TIGHT,
           fit_description |-> "This size will be somewhat snug but wearable" ]

\* mutant: the perfect range taken as an open interval
ClassifyFitStrictPerfect(chest_difference, tolerance) ==
    IF chest_difference <= tolerance.tight_threshold
    THEN [ fit_type |-> FitType.TIGHT,
           fit_description |-> "This size will be tight and may restrict movement" ]
    ELSE IF chest_difference >= tolerance.loose_threshold
    THEN [ fit_type |-> FitType.LOOSE,
           fit_description |-> "This size will be loose and may look oversized" ]
    ELSE IF Abs(chest_difference) < tolerance.perfect_range
    THEN [ fit_type |-> FitType.PERFECT,
           fit_description |-> "This size provides an excellent fit" ]
    ELSE IF chest_difference > 0
    THEN [ fit_type |-> FitType.LOOSE,
           fit_description |-> "This size will be somewhat loose but comfortable" ]
    ELSE [ fit_type |-> FitType.TIGHT,
           fit_description |-> "This size will be somewhat snug but wearable" ]

\* mutant: the sign of the difference tested before the perfect range
ClassifyFitSignFirst(chest_difference, tolerance) ==
    IF chest_difference <= tolerance.tight_threshold
    THEN [ fit_type |-> FitType.TIGHT,
           fit_description |-> "This size will be tight and may restrict movement" ]
    ELSE IF chest_difference >= tolerance.loose_threshold
    THEN [ fit_type |-> FitType.LOOSE,
           fit_description |-> "This size will be loose and may look oversized" ]
    ELSE IF chest_difference > 0
    THEN [ fit_type |-> FitType.LOOSE,
           fit_description |-> "This size will be somewhat loose but comfortable" ]
    ELSE IF Abs(chest_difference) <= tolerance.perfect_range
    THEN [ fit_type |-> FitType.PERFECT,
           fit_description |-> "This size provides an excellent fit" ]
    ELSE [ fit_type |-> FitType.TIGHT,
           fit_description |-> "This size will be somewhat snug but wearable" ]

\* lines 133-148
ClassifyFit(chest_difference, tolerance) ==
    IF chest_difference <= tolerance.tight_threshold
    THEN [ fit_type |-> FitType.TIGHT,
           fit_description |-> "This size will be tight and may restrict movement" ]
    ELSE IF chest_difference >= tolerance.loose_threshold
    THEN [ fit_type |-> FitType.LOOSE,
           fit_description |-> "This size will be loose and may look oversized" ]
    ELSE IF Abs(chest_difference) <= tolerance.perfect_range
    THEN [ fit_type |-> FitType.PERFECT,
           fit_description |-> "This size provides an excellent fit" ]
    ELSE IF chest_difference > 0
    THEN [ fit_type |-> FitType.LOOSE,
           fit_description |-> "This size will be somewhat loose but comfortable" ]
    ELSE [ fit_type |-> FitType.TIGHT,
           fit_description |-> "This size will be somewhat snug but wearable" ]

\* mutant: the signed difference penalised, abs() forgotten
ChestPenaltySigned(chest_difference) == Min(chest_difference * 10, 500)

\* mutant: the 50 point cap forgotten
ChestPenaltyUncapped(chest_difference) == Abs(chest_difference) * 10

\* line 151: min(abs(chest_difference) * 10, 50)
ChestPenalty(chest_difference) == Min(Abs(chest_difference) * 10, 500)

\* mutant: the signed difference penalised, abs() forgotten
LengthPenaltySigned(length_difference) == Min(length_difference * 5, 200)

\* line 152: min(abs(length_difference) * 5, 20)
LengthPenalty(length_difference) == Min(Abs(length_difference) * 5, 200)

\* line 153: max(0, 100 - chest_penalty - length_penalty)
FitScore(chest_penalty, length_penalty) == Max(0, 1000 - chest_penalty - length_penalty)

analyze_fit(measurements, tolerance, chest, height, selected_size, g) ==
    LET recommended_size == get_recommended_size(measurements, chest, g)
        garment_measurements == measurements[selected_size]
        chest_difference == ChestDifference(garment_measurements, chest)
        length_difference == LengthDifference(garment_measurements, height)
        fit == ClassifyFit(chest_difference, tolerance)
        chest_penalty == ChestPenalty(chest_difference)
        length_penalty == LengthPenalty(length_difference)
    IN  [ recommended_size |-> recommended_size,
          selected_size |-> selected_size,
          fit_type |-> fit.fit_type,
          chest_difference_cm |-> chest_difference,
          length_difference_cm |-> length_difference,
          fit_score |-> FitScore(chest_penalty, length_penalty),
          fit_description |-> fit.fit_description ]

\* mutant: a size that is no key of the catalog analysed as size M
AnalyzeFitOutcomeDefaultM(measurements, tolerance, chest, height, selected_size, g) ==
    IF selected_size \in DOMAIN measurements
    THEN [ raised |-> None,
           value |-> analyze_fit(measurements, tolerance, chest, height, selected_size, g) ]
    ELSE [ raised |-> None,
           value |-> analyze_fit(measurements, tolerance, chest, height, "M", g) ]

\* a call of analyze_fit with any size argument: line 127 raises KeyError when
\* the argument is no key of self.shirt_measurements, and nothing is returned
AnalyzeFitOutcome(measurements, tolerance, chest, height, selected_size, g) ==
    IF selected_size \in DOMAIN measurements
    THEN [ raised |-> None,
           value |-> analyze_fit(measurements, tolerance, chest, height, selected_size, g) ]
    ELSE [ raised |-> Exception("KeyError"), value |-> None ]

\* get_available_sizes
get_available_sizes(measurements) == CatalogOrder(measurements)

-----------------------------------------------------------------------------
(* get_size_comparison_data                                                *)

\* mutant: the size's string value compared with the recommended GarmentSize member
SizeEntryValueCompared(measurements, tolerance, chest, height, g, size, recommended_size) ==
    LET a == analyze_fit(measurements, tolerance, chest, height, size, g)
        m == measurements[size]
    IN  [ is_recommended |-> (<< "value", size >> = << "member", recommended_size >>),
          fit_type |-> a.fit_type,
          fit_score |-> a.fit_score,
          fit_description |-> a.fit_description,
          chest_difference |-> a.chest_difference_cm,
          length_difference |-> a.length_difference_cm,
          measurements |-> [ chest |-> m.chest_cm, length |-> m.length_cm,
                             shoulder_width |-> m.shoulder_width_cm,
                             sleeve_length |-> m.sleeve_length_cm ] ]

\* lines 189-202: the entry stored under size.value
SizeEntry(measurements, tolerance, chest, height, g, size, recommended_size) ==
    LET a == analyze_fit(measurements, tolerance, chest, height, size, g)
        m == measurements[size]
    IN  [ is_recommended |-> (size = recommended_size),
          fit_type |-> a.fit_type,
          fit_score |-> a.fit_score,
          fit_description |-> a.fit_description,
          chest_difference |-> a.chest_difference_cm,
          length_difference |-> a.length_difference_cm,
          measurements |-> [ chest |-> m.chest_cm, length |-> m.length_cm,
                             shoulder_width |-> m.shoulder_width_cm,
                             sleeve_length |-> m.sleeve_length_cm ] ]

get_size_comparison_data(measurements, tolerance, chest, height, g) ==
    LET recommended_size == get_recommended_size(measurements, chest, g)
        sizes == get_available_sizes(measurements)
    IN  [ recommended_size |-> recommended_size,
          person_measurements |-> [ chest |-> chest, height |-> height ],
          keys |-> sizes,
          size_analysis |->
              [ s \in { sizes[i] : i \in DOMAIN sizes } |->
                  SizeEntry(measurements, tolerance, chest, height, g, s,
                            recommended_size) ] ]

-----------------------------------------------------------------------------
(* VirtualTryOnVisualizer.apply_garment_overlay                             *)
(*                                                                         *)
(* An image is a buffer [shape |-> <<height, width>>, writes |-> ...]: its  *)
(* shape and the sequence of region writes made into it since it was        *)
(* loaded.  Buffers live in cells of a heap, so that a write through one    *)
(* name is seen through every name of the same cell.  Scale factors are     *)
(* kept in 1/600, alpha and the width and height adjustments in 1/100,      *)
(* landmark coordinates in half pixels.                                     *)

\* int(n / d) for d > 0: truncation towards zero
Trunc(n, d) == IF n >= 0 THEN n \div d ELSE -((-n) \div d)

\* mutant: the scale factor floored at 0.1
FitParametersFloored(fit_analysis) ==
    LET chest_diff == fit_analysis.chest_difference_cm
    IN  IF fit_analysis.fit_type = FitType.TIGHT
        THEN [ scale_factor |-> Max(60, 450 + 3 * chest_diff), alpha |-> 95,
               width_adjustment |-> 90, height_adjustment |-> 105 ]
        ELSE IF fit_analysis.fit_type = FitType.LOOSE
        THEN [ scale_factor |-> 600 + 4 * chest_diff, alpha |-> 65,
               width_adjustment |-> 120, height_adjustment |-> 110 ]
        ELSE [ scale_factor |-> 600, alpha |-> 80,
               width_adjustment |-> 100, height_adjustment |-> 100 ]

\* mutant: the tight and the loose width and height adjustments exchanged
FitParametersExchanged(fit_analysis) ==
    LET chest_diff == fit_analysis.chest_difference_cm
    IN  IF fit_analysis.fit_type = FitType.TIGHT
        THEN [ scale_factor |-> 450 + 3 * chest_diff, alpha |-> 95,
               width_adjustment |-> 120, height_adjustment |-> 110 ]
        ELSE IF fit_analysis.fit_type = FitType.LOOSE
        THEN [ scale_factor |-> 600 + 4 * chest_diff, alpha |-> 65,
               width_adjustment |-> 90, height_adjustment |-> 105 ]
        ELSE [ scale_factor |-> 600, alpha |-> 80,
               width_adjustment |-> 100, height_adjustment |-> 100 ]

\* lines 244-260: the transform parameters of the fit type
FitParameters(fit_analysis) ==
    LET chest_diff == fit_analysis.chest_difference_cm
    IN  IF fit_analysis.fit_type = FitType.TIGHT
        THEN [ scale_factor |-> 450 + 3 * chest_diff, alpha |-> 95,
               width_adjustment |-> 90, height_adjustment |-> 105 ]
        ELSE IF fit_analysis.fit_type = FitType.LOOSE
        THEN [ scale_factor |-> 600 + 4 * chest_diff, alpha |-> 65,
               width_adjustment |-> 120, height_adjustment |-> 110 ]
        ELSE [ scale_factor |-> 600, alpha |-> 80,
               width_adjustment |-> 100, height_adjustment |-> 100 ]

\* lines 263-264: int(garment_w * scale_factor * width_adjustment) and
\* int(garment_h * scale_factor * height_adjustment), as << width, height >>
NewGarmentSize(garment_shape, parameters) ==
    << Trunc(garment_shape[2] * parameters.scale_factor * parameters.width_adjustment, 60000),
       Trunc(garment_shape[1] * parameters.scale_factor * parameters.height_adjustment, 60000) >>

\* cv2.resize(src, (w, h)) fails unless both dimensions are positive
ResizeFails(w, h) == w <= 0 \/ h <= 0

\* line 286: pose_landmarks and len(pose_landmarks) > 11
HasShoulderLandmarks(landmarks) ==
    /\ landmarks # None
    /\ Len(landmarks) # 0
    /\ Len(landmarks) > 11

\* pose_landmarks[i] of the Python list: raises IndexError beyond its end
LandmarkMissing(landmarks, i) == i + 1 > Len(landmarks)

\* lines 295-300: start_y of the landmark path
LandmarkStartY(fit_type, shoulder_y) ==
    IF fit_type = FitType.TIGHT THEN shoulder_y - 10
    ELSE IF fit_type = FitType.LOOSE THEN shoulder_y - 30
    ELSE shoulder_y - 20

\* mutant: the default path's shifts of the tight and the loose fit exchanged
DefaultStartYExchanged(fit_type, person_h) ==
    IF fit_type = FitType.TIGHT THEN (person_h \div 4) - 20
    ELSE IF fit_type = FitType.LOOSE THEN (person_h \div 4) + 20
    ELSE person_h \div 4

\* lines 304-309: start_y of the default path
DefaultStartY(fit_type, person_h) ==
    IF fit_type = FitType.TIGHT THEN (person_h \div 4) + 20
    ELSE IF fit_type = FitType.LOOSE THEN (person_h \div 4) - 20
    ELSE person_h \div 4

\* lines 286-309: the placement anchor, or the exception raised while reading
\* the landmarks
PlacementAnchor(fit_type, person_shape, landmarks) ==
    IF HasShoulderLandmarks(landmarks)
    THEN IF LandmarkMissing(landmarks, 11) \/ LandmarkMissing(landmarks, 12)
         THEN [ raised |-> Exception("IndexError"), path |-> "landmarks",
                center_x |-> 0, start_y |-> 0 ]
         ELSE LET left_shoulder_x == Trunc(landmarks[12].x, 2)
                  right_shoulder_x == Trunc(landmarks[13].x, 2)
                  shoulder_y == Trunc(landmarks[12].y + landmarks[13].y, 4)
              IN  [ raised |-> None, path |-> "landmarks",
                    center_x |-> (left_shoulder_x + right_shoulder_x) \div 2,
                    start_y |-> LandmarkStartY(fit_type, shoulder_y) ]
    ELSE [ raised |-> None, path |-> "default",
           center_x |-> person_shape[2] \div 2,
           start_y |-> DefaultStartY(fit_type, person_shape[1]) ]

\* mutant: the origin not floored at 0
ClipPlacementNoFloor(center_x, anchor_y, new_garment_w, new_garment_h, person_shape) ==
    LET person_h == person_shape[1]
        person_w == person_shape[2]
        start_x == Min(center_x - (new_garment_w \div 2), person_w - new_garment_w)
        start_y == Min(anchor_y, person_h - new_garment_h)
        end_x == Min(start_x + new_garment_w, person_w)
        end_y == Min(start_y + new_garment_h, person_h)
    IN  [ start_x |-> start_x, start_y |-> start_y, end_x |-> end_x, end_y |-> end_y,
          actual_w |-> end_x - start_x, actual_h |-> end_y - start_y ]

\* lines 311-321: the placement rectangle clipped to the person image
ClipPlacement(center_x, anchor_y, new_garment_w, new_garment_h, person_shape) ==
    LET person_h == person_shape[1]
        person_w == person_shape[2]
        start_x == Max(0, Min(center_x - (new_garment_w \div 2), person_w - new_garment_w))
        start_y == Max(0, Min(anchor_y, person_h - new_garment_h))
        end_x == Min(start_x + new_garment_w, person_w)
        end_y == Min(start_y + new_garment_h, person_h)
    IN  [ start_x |-> start_x, start_y |-> start_y, end_x |-> end_x, end_y |-> end_y,
          actual_w |-> end_x - start_x, actual_h |-> end_y - start_y ]

\* mutant: the garment blended at the size of its first resize
BlendedGarmentSizeNotResized(rect, new_size) == new_size

\* lines 319-323: the size of resized_garment at blending, after the second
\* resize made when the clipped rectangle differs from the first resize
BlendedGarmentSize(rect, new_size) ==
    IF rect.actual_w # new_size[1] \/ rect.actual_h # new_size[2]
    THEN << rect.actual_w, rect.actual_h >>
    ELSE new_size

\* lines 329-359: the write of the blended garment into result[start_y:end_y, start_x:end_x]
BlendWrite(fit_analysis, parameters, rect) ==
    [ kind |-> "blend", fit_type |-> fit_analysis.fit_type, alpha |-> parameters.alpha,
      region |-> << rect.start_x, rect.start_y, rect.end_x, rect.end_y >> ]

\* lines 366-401, _add_fit_indicator: the label box, the fit text and the size text
IndicatorWrite(fit_analysis) ==
    [ kind |-> "indicator", fit_type |-> fit_analysis.fit_type,
      fit_score |-> fit_analysis.fit_score,
      selected_size |-> fit_analysis.selected_size,
      recommended_size |-> fit_analysis.recommended_size ]

\* a write into the buffer of a heap cell
WriteInto(heap, cell, write) ==
    [ heap EXCEPT ![cell].writes = Append(@, write) ]

\* mutant: result = person_image, without the copy
ResultCellAliased(source_cell) == source_cell

\* line 326, result = person_image.copy(): the cell the name result refers to
ResultCell(source_cell) == "result"

\* the locals of a call that raised at its first resize
OverlayFailedAtResize(parameters, new_size) ==
    [ raised |-> Exception("cv2.error"), stage |-> "resize", parameters |-> parameters,
      new_garment_w |-> new_size[1], new_garment_h |-> new_size[2] ]

\* apply_garment_overlay(person_image, garment_image, fit_analysis, pose_landmarks)
\* on a heap holding the caller's two images in the cells "person" and "garment":
\* the heap afterwards, the locals of the call, and the cell of the returned image
apply_garment_overlay(heap, fit_analysis, landmarks) ==
    LET person_shape == heap["person"].shape
        garment_shape == heap["garment"].shape
        parameters == FitParameters(fit_analysis)
        new_size == NewGarmentSize(garment_shape, parameters)
        anchor == PlacementAnchor(fit_analysis.fit_type, person_shape, landmarks)
        rect == ClipPlacement(anchor.center_x, anchor.start_y, new_size[1], new_size[2],
                              person_shape)
        result == ResultCell("person")
        copied == [ c \in DOMAIN heap \cup { result } |->
                      IF c = result THEN heap["person"] ELSE heap[c] ]
        blended == WriteInto(copied, result, BlendWrite(fit_analysis, parameters, rect))
        labelled == WriteInto(blended, result, IndicatorWrite(fit_analysis))
    IN  IF ResizeFails(new_size[1], new_size[2])
        THEN [ heap |-> heap, returned |-> None,
               frame |-> OverlayFailedAtResize(parameters, new_size) ]
        ELSE IF anchor.raised # None
        THEN [ heap |-> heap, returned |-> None,
               frame |-> [ raised |-> anchor.raised, stage |-> "landmarks",
                           parameters |-> parameters,
                           new_garment_w |-> new_size[1], new_garment_h |-> new_size[2] ] ]
        ELSE IF ResizeFails(rect.actual_w, rect.actual_h)
        THEN [ heap |-> heap, returned |-> None,
               frame |-> [ raised |-> Exception("cv2.error"), stage |-> "clip",
                           parameters |-> parameters,
                           new_garment_w |-> new_size[1], new_garment_h |-> new_size[2] ] ]
        ELSE [ heap |-> labelled, returned |-> result,
               frame |-> [ raised |-> None, stage |-> "done", parameters |-> parameters,
                           new_garment_w |-> new_size[1], new_garment_h |-> new_size[2],
                           path |-> anchor.path, center_x |-> anchor.center_x,
                           anchor_y |-> anchor.start_y, rect |-> rect,
                           resized_again |-> (rect.actual_w # new_size[1]
                                              \/ rect.actual_h # new_size[2]),
                           garment_w |-> BlendedGarmentSize(rect, new_size)[1],
                           garment_h |-> BlendedGarmentSize(rect, new_size)[2] ] ]

-----------------------------------------------------------------------------
(* create_size_comparison_grid                                             *)

\* mutant: XL shown as well
SizesToShowWithXL == << "S", "M", "L", "XL" >>

\* line 420: sizes_to_show
SizesToShow == << "S", "M", "L" >>

\* lines 429-430: the tile size
target_height == 400
target_width == 300

\* cv2.resize(img, (width, height)): a new buffer of that size with img's content
Resize(img, width, height) == [ img EXCEPT !.shape = << height, width >> ]

RECURSIVE SumOfWidths(_, _)
SumOfWidths(images, i) ==
    IF i = 0 THEN 0 ELSE images[i].shape[2] + SumOfWidths(images, i - 1)

\* np.hstack(images), for images of one height: the tiles side by side, in order
HStack(images) ==
    [ shape |-> << images[1].shape[1], SumOfWidths(images, Len(images)) >>,
      tiles |-> images ]

\* the element of a one-element set: a value computed once and then named
The(S) == CHOOSE x \in S : TRUE

\* lines 423-426: the loop over sizes_to_show from index i, on a heap; it stops
\* at the first call that raises
RECURSIVE GridLoop(_, _, _, _, _, _, _, _, _, _)
GridLoop(heap, sizes, i, images, measurements, tolerance, chest, height, g, landmarks) ==
    IF i > Len(sizes) THEN [ heap |-> heap, raised |-> None, images |-> images ]
    ELSE The({ IF out.frame.raised # None
               THEN [ heap |-> out.heap, raised |-> out.frame.raised, images |-> images ]
               ELSE GridLoop(out.heap, sizes, i + 1,
                             Append(images, out.heap[out.returned]),
                             measurements, tolerance, chest, height, g, landmarks)
               : out \in { apply_garment_overlay(heap, fit_analysis, landmarks)
                           : fit_analysis \in { analyze_fit(measurements, tolerance, chest,
                                                            height, sizes[i], g) } } })

\* create_size_comparison_grid(person_image, garment_image, person_chest,
\* person_height, gender, pose_landmarks) on a heap holding the two images
create_size_comparison_grid(heap, measurements, tolerance, chest, height, g, landmarks) ==
    The({ IF loop.raised # None
          THEN [ heap |-> loop.heap, raised |-> loop.raised, grid |-> None ]
          ELSE [ heap |-> loop.heap, raised |-> None,
                 grid |-> HStack([ k \in DOMAIN loop.images |->
                                     Resize(loop.images[k], target_width, target_height) ]) ]
          : loop \in { GridLoop(heap, SizesToShow, 1, << >>, measurements, tolerance,
                                chest, height, g, landmarks) } })

-----------------------------------------------------------------------------
(* process_virtual_tryon_with_sizing                                       *)

\* str.upper()
Upper(str) ==
    [ i \in DOMAIN str |->
        IF \E k \in DOMAIN LowerCase : LowerCase[k] = str[i]
        THEN UpperCase[CHOOSE k \in DOMAIN LowerCase : LowerCase[k] = str[i]]
        ELSE str[i] ]

\* lines 21-26: the value of each member of GarmentSize, as characters
SizeValue ==
    [ size \in GarmentSizes |->
        IF size = "XS" THEN << "X", "S" >>
        ELSE IF size = "S" THEN << "S" >>
        ELSE IF size = "M" THEN << "M" >>
        ELSE IF size = "L" THEN << "L" >>
        ELSE IF size = "XL" THEN << "X", "L" >>
        ELSE << "X", "X", "L" >> ]

\* mutant: the label looked up as given, without upper()
SizeEnumAsGiven(selected_size) ==
    IF \E size \in GarmentSizes : SizeValue[size] = selected_size
    THEN CHOOSE size \in GarmentSizes : SizeValue[size] = selected_size
    ELSE "M"

\* lines 474-477: GarmentSize(selected_size.upper()), GarmentSize.M when that
\* raises ValueError
SizeEnum(selected_size) ==
    IF \E size \in GarmentSizes : SizeValue[size] = Upper(selected_size)
    THEN CHOOSE size \in GarmentSizes : SizeValue[size] = Upper(selected_size)
    ELSE "M"

\* cv2.imread(path): the decoded content of the file, None when it cannot be decoded
imread(path, content, undecodable) == IF path \in undecodable THEN None ELSE content

\* mutant: only the person image checked
CouldNotLoadPerson(person, garment) == person = None

\* line 470: person_image is None or garment_image is None
CouldNotLoad(person, garment) == person = None \/ garment = None

\* image_to_base64(img), lines 494-497: the data URL of the JPEG encoding of img
image_to_base64(img) == [ data_url |-> "data:image/jpeg;base64", encoded |-> img ]

\* lines 503-511: the fit_analysis entry of the result
FitAnalysisEntry(fit_analysis) ==
    [ selected_size |-> fit_analysis.selected_size,
      recommended_size |-> fit_analysis.recommended_size,
      fit_type |-> fit_analysis.fit_type,
      fit_score |-> fit_analysis.fit_score,
      fit_description |-> fit_analysis.fit_description,
      chest_difference |-> fit_analysis.chest_difference_cm,
      length_difference |-> fit_analysis.length_difference_cm ]

\* lines 479-513, on the loaded images: analyze_fit, apply_garment_overlay,
\* create_size_comparison_grid, get_size_comparison_data and the result dict
ProcessLoaded(person, garment, size_enum, measurements, tolerance, chest, height, g, landmarks) ==
    The({ The({ IF overlay.frame.raised # None
                THEN [ raised |-> overlay.frame.raised,
                       calls |-> << "imread", "imread", "analyze_fit",
                                    "apply_garment_overlay" >>,
                       size_enum |-> size_enum, result |-> None ]
                ELSE The({ IF grid.raised # None
                           THEN [ raised |-> grid.raised,
                                  calls |-> << "imread", "imread", "analyze_fit",
                                               "apply_garment_overlay",
                                               "create_size_comparison_grid" >>,
                                  size_enum |-> size_enum, result |-> None ]
                           ELSE [ raised |-> None,
                                  calls |-> << "imread", "imread", "analyze_fit",
                                               "apply_garment_overlay",
                                               "create_size_comparison_grid",
                                               "get_size_comparison_data" >>,
                                  size_enum |-> size_enum,
                                  result |->
                                    [ success |-> TRUE,
                                      try_on_result |->
                                          image_to_base64(overlay.heap[overlay.returned]),
                                      comparison_grid |-> image_to_base64(grid.grid),
                                      fit_analysis |-> FitAnalysisEntry(fit_analysis),
                                      size_data |-> get_size_comparison_data(
                                          measurements, tolerance, chest, height, g) ] ]
                           : grid \in { create_size_comparison_grid(
                                            overlay.heap, measurements, tolerance, chest,
                                            height, g, landmarks) } })
                : overlay \in { apply_garment_overlay(
                                    [ person |-> person, garment |-> garment ],
                                    fit_analysis, landmarks) } })
          : fit_analysis \in { analyze_fit(measurements, tolerance, chest, height,
                                           size_enum, g) } })

\* process_virtual_tryon_with_sizing(person_image_path, garment_image_path,
\* person_chest, person_height, selected_size, gender, pose_landmarks), the
\* files at the two paths holding person_content and garment_content: what it
\* raised, the calls it made in order, its size_enum and the dict it returned
process_virtual_tryon_with_sizing(person_content, garment_content, undecodable, measurements, tolerance, chest, height, selected_size, g, landmarks) ==
    LET person == imread("person_image_path", person_content, undecodable)
        garment == imread("garment_image_path", garment_content, undecodable)
    IN  IF CouldNotLoad(person, garment)
        THEN [ raised |-> Exception("ValueError"), calls |-> << "imread", "imread" >>,
               size_enum |-> None, result |-> None ]
        ELSE IF person = None \/ garment = None
        THEN [ raised |-> Exception("AttributeError"),
               calls |-> << "imread", "imread", "analyze_fit", "apply_garment_overlay" >>,
               size_enum |-> SizeEnum(selected_size), result |-> None ]
        ELSE The({ ProcessLoaded(person_content, garment_content, size_enum, measurements,
                                 tolerance, chest, height, g, landmarks)
                   : size_enum \in { SizeEnum(selected_size) } })

-----------------------------------------------------------------------------
(* HTTP basic authentication of the web service (src/main.py)              *)

\* lines 50-51
VALID_USERNAME == "admin"
VALID_PASSWORD == "tryon2024"

\* HTTPException(status_code, detail, headers), the headers a set of pairs
HTTPException(status_code, detail, headers) ==
    [ status_code |-> status_code, detail |-> detail, headers |-> headers ]

\* secrets.compare_digest(a, b): whether the two strings are equal
compare_digest(a, b) == a = b

\* line 47, security = HTTPBasic(): the credentials of the request, or the 401
\* challenge when the request carries none
security(credentials) ==
    IF credentials = None
    THEN [ raised |-> HTTPException(401, "Not authenticated",
                                    { << "WWW-Authenticate", "Basic" >> }),
           value |-> None ]
    ELSE [ raised |-> None, value |-> credentials ]

\* mutant: one correct field is enough
verify_credentials_either(credentials) ==
    LET is_correct_username == compare_digest(credentials.username, VALID_USERNAME)
        is_correct_password == compare_digest(credentials.password, VALID_PASSWORD)
    IN  IF ~(is_correct_username \/ is_correct_password)
        THEN [ raised |-> HTTPException(401, "Invalid credentials",
                                        { << "WWW-Authenticate", "Basic" >> }),
               value |-> None ]
        ELSE [ raised |-> None, value |-> credentials.username ]

\* lines 64-75
verify_credentials(credentials) ==
    LET is_correct_username == compare_digest(credentials.username, VALID_USERNAME)
        is_correct_password == compare_digest(credentials.password, VALID_PASSWORD)
    IN  IF ~(is_correct_username /\ is_correct_password)
        THEN [ raised |-> HTTPException(401, "Invalid credentials",
                                        { << "WWW-Authenticate", "Basic" >> }),
               value |-> None ]
        ELSE [ raised |-> None, value |-> credentials.username ]

\* the routes of the application whose handler depends on verify_credentials
\* (lines 424, 441, 462, 752, 809) and those whose handler does not
ProtectedRoutes == { "/", "/test-file-upload", "/process", "/test-auth", "/test-hf-api" }
OpenRoutes == { "/test-upload", "/predict-measurements", "/health", "/api/status" }
Routes == ProtectedRoutes \cup OpenRoutes

\* the handling of a request: the dependencies of the route are resolved
\* first, security and then verify_credentials; an exception of either is the
\* response and the handler is not called; otherwise the handler runs
HandleRequest(route, credentials) ==
    IF route \in ProtectedRoutes
    THEN IF security(credentials).raised # None
         THEN [ status_code |-> security(credentials).raised.status_code,
                headers |-> security(credentials).raised.headers,
                executed |-> {}, username |-> None ]
         ELSE IF verify_credentials(security(credentials).value).raised # None
         THEN [ status_code |-> verify_credentials(security(credentials).value).raised.status_code,
                headers |-> verify_credentials(security(credentials).value).raised.headers,
                executed |-> {}, username |-> None ]
         ELSE [ status_code |-> 200, headers |-> {}, executed |-> { route },
                username |-> verify_credentials(security(credentials).value).value ]
    ELSE [ status_code |-> 200, headers |-> {}, executed |-> { route }, username |-> None ]

-----------------------------------------------------------------------------
(* KlingAIClient.get_task_status and wait_for_completion                    *)
(* (src/kling_ai_client.py).  Messages are strings; times are seconds.      *)

\* one character of str.lower()
LowerChar(c) ==
    IF \E k \in DOMAIN UpperCase : UpperCase[k] = c
    THEN LowerCase[CHOOSE k \in DOMAIN UpperCase : UpperCase[k] = c]
    ELSE c

\* t in s.lower(), for strings: t occurs in s once every character of s is
\* lowered
InLower(t, s) ==
    \E i \in 1..(Len(s) - Len(t) + 1) :
        \A k \in 1..Len(t) : LowerChar(SubSeq(s, i + k - 1, i + k - 1)) = SubSeq(t, k, k)

\* lines 176-199, get_task_status on a response of the service: the data it
\* returns, or the exception it raises; every exception raised inside is
\* raised again as "Failed to get task status: ..."
get_task_status(response) ==
    IF response.kind = "timeout"
    THEN [ raised |-> "Failed to get task status: " \o response.message, value |-> None ]
    ELSE IF response.status_code # 200
    THEN [ raised |-> "Failed to get task status: " \o "Status check failed: HTTP "
                      \o ToString(response.status_code),
           value |-> None ]
    ELSE IF response.code # 0
    THEN [ raised |-> "Failed to get task status: " \o "Status API Error: "
                      \o response.message,
           value |-> None ]
    ELSE [ raised |-> "", value |-> response.data ]

\* line 260: the exceptions the handler raises again
Reraised(message) == InLower("timeout", message) \/ InLower("failed", message)

\* mutant: a succeeded task is returned whatever its image list
InterpretStatusIgnoringImages(status_data, task_id) ==
    IF status_data = None
    THEN [ does |-> "raise", message |-> "'NoneType' object has no attribute 'get'" ]
    ELSE IF status_data.task_status = "succeed"
    THEN [ does |-> "return",
           value |-> [ success |-> TRUE, status |-> "completed",
                       images |-> status_data.images, task_id |-> task_id ] ]
    ELSE IF status_data.task_status = "failed"
    THEN [ does |-> "raise", message |-> "Task failed: " \o status_data.task_status_msg ]
    ELSE [ does |-> "continue" ]

\* lines 229-257, the body of the try after get_task_status returned
\* status_data: "return" with the result, "raise" with a message, or "continue"
InterpretStatus(status_data, task_id) ==
    IF status_data = None
    THEN [ does |-> "raise", message |-> "'NoneType' object has no attribute 'get'" ]
    ELSE IF status_data.task_status = "succeed"
    THEN IF Len(status_data.images) > 0
         THEN [ does |-> "return",
                value |-> [ success |-> TRUE, status |-> "completed",
                            images |-> status_data.images, task_id |-> task_id ] ]
         ELSE [ does |-> "raise", message |-> "No images found in successful result" ]
    ELSE IF status_data.task_status = "failed"
    THEN [ does |-> "raise",
           message |-> "Task failed: " \o
                       (IF Len(status_data.task_status_msg) > 0
                        THEN status_data.task_status_msg
                        ELSE "Task failed without specific reason") ]
    ELSE [ does |-> "continue" ]

\* lines 222-263, one status check: the try block and its handler
CheckOutcome(response, task_id) ==
    IF Len(get_task_status(response).raised) > 0
    THEN IF Reraised(get_task_status(response).raised)
         THEN [ does |-> "raise", message |-> get_task_status(response).raised ]
         ELSE [ does |-> "continue" ]
    ELSE IF InterpretStatus(get_task_status(response).value, task_id).does = "raise"
    THEN IF Reraised(InterpretStatus(get_task_status(response).value, task_id).message)
         THEN InterpretStatus(get_task_status(response).value, task_id)
         ELSE [ does |-> "continue" ]
    ELSE InterpretStatus(get_task_status(response).value, task_id)

-----------------------------------------------------------------------------
(* The state machine.                                                      *)

Init ==
    /\ shirt_measurements = InitShirtMeasurements
    /\ fit_tolerance = InitFitTolerance
    /\ person_chest \in ChestValues
    /\ person_height \in HeightValues
    /\ gender \in Genders
    /\ recommendation = None
    /\ analysis = None
    /\ analysis_call = None
    /\ size_data = None
    /\ other = None
    /\ other_analysis = None
    /\ person_image = None
    /\ garment_image = None
    /\ pose_landmarks = None
    /\ rendered = None
    /\ unreadable = {}
    /\ http = None
    /\ wait = None
    /\ pipeline = None

\* a call of get_recommended_size(person_chest, gender)
GetRecommendedSize ==
    /\ recommendation' = RecommendedSizeFrame(shirt_measurements, person_chest, gender)
    /\ UNCHANGED << catalog_vars, request_vars, service_vars, analysis, analysis_call, size_data,
                    other_analysis, visual_vars >>

\* a call of analyze_fit(person_chest, person_height, selected_size, gender)
AnalyzeFit ==
    \E selected_size \in GarmentSizes \cup { UnknownSize } :
        /\ LET outcome == AnalyzeFitOutcome(shirt_measurements, fit_tolerance, person_chest,
                                            person_height, selected_size, gender)
           IN  /\ analysis' = outcome.value
               /\ analysis_call' = [ selected_size |-> selected_size,
                                     raised |-> outcome.raised ]
        /\ UNCHANGED << catalog_vars, request_vars, service_vars, recommendation, size_data,
                        other_analysis, visual_vars >>

\* a call of get_size_comparison_data(person_chest, person_height, gender)
GetSizeComparisonData ==
    /\ size_data' = get_size_comparison_data(shirt_measurements, fit_tolerance,
                                             person_chest, person_height, gender)
    /\ UNCHANGED << catalog_vars, request_vars, service_vars, recommendation, analysis, analysis_call,
                    other_analysis, visual_vars >>

Next == GetRecommendedSize \/ AnalyzeFit \/ GetSizeComparisonData

Spec == Init /\ [][Next]_vars

-----------------------------------------------------------------------------
(* Two requests side by side: analyze_fit is called for the request and for *)
(* a second, independent request (other), so that two results can be        *)
(* compared.                                                                *)

PairInit ==
    /\ shirt_measurements = InitShirtMeasurements
    /\ fit_tolerance = InitFitTolerance
    /\ person_chest \in PairChests
    /\ person_height \in PairHeights
    /\ gender \in PairGenders
    /\ other \in [ chest : PairChests, height : PairHeights,
                   gender : { << "u", "n", "i", "s", "e", "x" >> },
                   size : GarmentSizes ]
    /\ recommendation = None
    /\ analysis = None
    /\ analysis_call = None
    /\ size_data = None
    /\ other_analysis = None
    /\ person_image = None
    /\ garment_image = None
    /\ pose_landmarks = None
    /\ rendered = None
    /\ unreadable = {}
    /\ http = None
    /\ wait = None
    /\ pipeline = None

\* a call of analyze_fit(other.chest, other.height, other.size, other.gender)
AnalyzeFitOther ==
    /\ other # None
    /\ other_analysis' = analyze_fit(shirt_measurements, fit_tolerance, other.chest,
                                     other.height, other.size, other.gender)
    /\ UNCHANGED << catalog_vars, request_vars, service_vars, recommendation, analysis, analysis_call,
                    size_data, visual_vars >>

PairNext == AnalyzeFit \/ AnalyzeFitOther

PairSpec == PairInit /\ [][PairNext]_vars

-----------------------------------------------------------------------------
(* Compositing: analyze_fit followed by apply_garment_overlay, over person  *)
(* images, garment images and landmark lists of several shapes.             *)

\* a freshly loaded image of the given height and width
Image(height, width) == [ shape |-> << height, width >>, writes |-> << >> ]

\* a landmark list of n points whose shoulders (indices 11 and 12) are at the
\* given coordinates, in half pixels
Landmarks(n, left, right) ==
    [ i \in 1..n |-> IF i = 12 THEN [ x |-> left[1], y |-> left[2] ]
                     ELSE IF i = 13 THEN [ x |-> right[1], y |-> right[2] ]
                     ELSE [ x |-> 0, y |-> 0 ] ]

OverlayChests == { 885, 930, 1010, 1120 }
OverlayPersonImages == { Image(400, 300), Image(60, 40), Image(200, 500), Image(1, 1) }
\* garment shapes on which the float products of lines 263-264 truncate to the
\* same integers as the exact products
OverlayGarmentImages == { Image(130, 110), Image(520, 410), Image(30, 21) }
OverlayLandmarks ==
    { None,
      Landmarks(0, << 0, 0 >>, << 0, 0 >>),
      Landmarks(12, << 201, 160 >>, << 0, 0 >>),
      Landmarks(33, << 201, 160 >>, << 400, 181 >>),
      Landmarks(33, << 21, 10 >>, << 40, 21 >>),
      Landmarks(33, << 900, 700 >>, << 1100, 900 >>) }

OverlayInit ==
    /\ shirt_measurements = InitShirtMeasurements
    /\ fit_tolerance = InitFitTolerance
    /\ person_chest \in OverlayChests
    /\ person_height = 1750
    /\ gender = << "u", "n", "i", "s", "e", "x" >>
    /\ person_image \in OverlayPersonImages
    /\ garment_image \in OverlayGarmentImages
    /\ pose_landmarks \in OverlayLandmarks
    /\ recommendation = None
    /\ analysis = None
    /\ analysis_call = None
    /\ size_data = None
    /\ other = None
    /\ other_analysis = None
    /\ rendered = None
    /\ unreadable = {}
    /\ http = None
    /\ wait = None
    /\ pipeline = None

\* a call of apply_garment_overlay(person_image, garment_image, analysis, pose_landmarks)
ApplyGarmentOverlay ==
    /\ analysis # None
    /\ person_image # None
    /\ garment_image # None
    /\ LET out == apply_garment_overlay([ person |-> person_image, garment |-> garment_image ],
                                        analysis, pose_landmarks)
       IN  /\ person_image' = out.heap["person"]
           /\ garment_image' = out.heap["garment"]
           /\ rendered' = [ op |-> "apply_garment_overlay",
                            fit_analysis |-> analysis,
                            frame |-> out.frame,
                            image |-> IF out.frame.raised = None
                                      THEN out.heap[out.returned] ELSE None ]
    /\ UNCHANGED << catalog_vars, request_vars, service_vars, recommendation, analysis, analysis_call,
                    size_data, other_analysis, pose_landmarks >>

OverlayNext == AnalyzeFit \/ ApplyGarmentOverlay

OverlaySpec == OverlayInit /\ [][OverlayNext]_vars

-----------------------------------------------------------------------------
(* The whole module: the three sizing operations, the two compositing       *)
(* operations and process_virtual_tryon_with_sizing, on image files that    *)
(* may or may not be decodable.                                             *)

TryOnChests == { 1010 }
TryOnPersonImages == { Image(400, 300), Image(60, 40) }
TryOnGarmentImages == { Image(130, 110), Image(1, 1) }
TryOnLandmarks == { None, Landmarks(33, << 201, 160 >>, << 400, 181 >>) }
TryOnUnreadable == { {}, { "person_image_path" }, { "garment_image_path" } }
TryOnLabels ==
    { << "m" >>, << "x", "l" >>, << "S" >>, << "X", "X", "X", "L" >>, << >> }

TryOnInit ==
    /\ shirt_measurements = InitShirtMeasurements
    /\ fit_tolerance = InitFitTolerance
    /\ person_chest \in TryOnChests
    /\ person_height = 1750
    /\ gender = << "u", "n", "i", "s", "e", "x" >>
    /\ person_image \in TryOnPersonImages
    /\ garment_image \in TryOnGarmentImages
    /\ pose_landmarks \in TryOnLandmarks
    /\ unreadable \in TryOnUnreadable
    /\ recommendation = None
    /\ analysis = None
    /\ analysis_call = None
    /\ size_data = None
    /\ other = None
    /\ other_analysis = None
    /\ rendered = None
    /\ http = None
    /\ wait = None
    /\ pipeline = None

\* a call of create_size_comparison_grid(person_image, garment_image,
\* person_chest, person_height, gender, pose_landmarks)
CreateSizeComparisonGrid ==
    /\ person_image # None
    /\ garment_image # None
    /\ \E out \in { create_size_comparison_grid(
                        [ person |-> person_image, garment |-> garment_image ],
                        shirt_measurements, fit_tolerance, person_chest, person_height,
                        gender, pose_landmarks) } :
           /\ person_image' = out.heap["person"]
           /\ garment_image' = out.heap["garment"]
           /\ rendered' = [ op |-> "create_size_comparison_grid",
                            raised |-> out.raised, grid |-> out.grid ]
    /\ UNCHANGED << catalog_vars, request_vars, service_vars, recommendation, analysis,
                    analysis_call, size_data, other_analysis, pose_landmarks >>

\* a call of process_virtual_tryon_with_sizing on the two image paths; the
\* images it loads are its own
ProcessVirtualTryOn ==
    /\ person_image # None
    /\ garment_image # None
    /\ \E selected_size \in TryOnLabels :
          \E out \in { process_virtual_tryon_with_sizing(
                           person_image, garment_image, unreadable, shirt_measurements,
                           fit_tolerance, person_chest, person_height, selected_size,
                           gender, pose_landmarks) } :
              rendered' = [ op |-> "process_virtual_tryon_with_sizing",
                            selected_size |-> selected_size,
                            raised |-> out.raised, calls |-> out.calls,
                            size_enum |-> out.size_enum, result |-> out.result ]
    /\ UNCHANGED << catalog_vars, request_vars, service_vars, recommendation, analysis,
                    analysis_call, size_data, other_analysis, image_vars >>

TryOnNext ==
    \/ GetRecommendedSize
    \/ AnalyzeFit
    \/ GetSizeComparisonData
    \/ ApplyGarmentOverlay
    \/ CreateSizeComparisonGrid
    \/ ProcessVirtualTryOn

TryOnSpec == TryOnInit /\ [][TryOnNext]_vars

-----------------------------------------------------------------------------
(* The web service: requests with and without credentials.                  *)

AuthUsernames == { "admin", "Admin", "tryon2024", "" }
AuthPasswords == { "tryon2024", "tryon2025", "admin", "" }
AuthCredentials ==
    { None } \cup [ username : AuthUsernames, password : AuthPasswords ]

AuthInit ==
    /\ shirt_measurements = InitShirtMeasurements
    /\ fit_tolerance = InitFitTolerance
    /\ person_chest = 930
    /\ person_height = 1750
    /\ gender = << "u", "n", "i", "s", "e", "x" >>
    /\ recommendation = None
    /\ analysis = None
    /\ analysis_call = None
    /\ size_data = None
    /\ other = None
    /\ other_analysis = None
    /\ person_image = None
    /\ garment_image = None
    /\ pose_landmarks = None
    /\ rendered = None
    /\ unreadable = {}
    /\ http = None
    /\ wait = None
    /\ pipeline = None

\* an HTTP request to a route, with or without basic credentials
HttpRequest ==
    /\ \E route \in Routes, credentials \in AuthCredentials :
          http' = [ route |-> route, credentials |-> credentials,
                    response |-> HandleRequest(route, credentials) ]
    /\ UNCHANGED << catalog_vars, request_vars, recommendation, analysis, analysis_call,
                    size_data, other_analysis, visual_vars, unreadable, provider_vars >>

AuthNext == HttpRequest

AuthSpec == AuthInit /\ [][AuthNext]_vars

-----------------------------------------------------------------------------
(* A call of wait_for_completion: one step per status check, the service    *)
(* answering each check in any of the ways get_task_status distinguishes.   *)

\* (max_wait_time, poll_interval) of the call; the first pair is the default
WaitParameters == { << 600, 15 >>, << 60, 15 >>, << 10, 15 >> }

\* what the service can answer to a status check
StatusData(task_status, task_status_msg, images) ==
    [ task_status |-> task_status, task_status_msg |-> task_status_msg, images |-> images ]

Answer(data) == [ kind |-> "answer", status_code |-> 200, code |-> 0, data |-> data ]

ServiceResponses ==
    { [ kind |-> "timeout",
        message |-> "HTTPSConnectionPool(host='api-singapore.klingai.com', port=443): Read timed out. (read timeout=30)" ],
      [ kind |-> "answer", status_code |-> 500 ],
      [ kind |-> "answer", status_code |-> 200, code |-> 1200, message |-> "Service busy" ],
      Answer(None),
      Answer(StatusData("submitted", "", << >>)),
      Answer(StatusData("processing", "", << >>)),
      Answer(StatusData("queued", "", << >>)),
      Answer(StatusData("succeed", "", << "https://cdn.klingai.com/result.png" >>)),
      Answer(StatusData("succeed", "", << >>)),
      Answer(StatusData("failed", "", << >>)),
      Answer(StatusData("failed", "Image risk control", << >>)) }

\* the seconds a status check takes
CheckDurations == { 0, 30 }

\* lines 213-214 of wait_for_completion(task_id, max_wait_time, poll_interval)
WaitInit ==
    /\ shirt_measurements = InitShirtMeasurements
    /\ fit_tolerance = InitFitTolerance
    /\ person_chest = 930
    /\ person_height = 1750
    /\ gender = << "u", "n", "i", "s", "e", "x" >>
    /\ recommendation = None
    /\ analysis = None
    /\ analysis_call = None
    /\ size_data = None
    /\ other = None
    /\ other_analysis = None
    /\ person_image = None
    /\ garment_image = None
    /\ pose_landmarks = None
    /\ rendered = None
    /\ unreadable = {}
    /\ http = None
    /\ pipeline = None
    /\ \E parameters \in WaitParameters :
          wait = [ task_id |-> "task-1",
                   max_wait_time |-> parameters[1], poll_interval |-> parameters[2],
                   max_checks |-> parameters[1] \div parameters[2],
                   i |-> 0, elapsed_time |-> 0, checks |-> 0,
                   last |-> None, last_does |-> "none", result |-> None ]

\* the call after the loop ended without a return: line 265
DidNotComplete(w) ==
    [ w EXCEPT !.result = [ raised |-> "Task did not complete within "
                                       \o ToString(w.max_wait_time) \o " seconds" ] ]

\* the call after a check that continues: the next iteration, or the end of the loop
Continue(w) ==
    IF w.i + 1 >= w.max_checks THEN DidNotComplete([ w EXCEPT !.i = w.i + 1 ])
    ELSE [ w EXCEPT !.i = w.i + 1 ]

\* one iteration of the loop of lines 216-263, up to the next await or the
\* end of the call; with no iteration to run the call raises at line 265
StatusCheck ==
    /\ wait # None
    /\ wait.result = None
    /\ IF wait.i >= wait.max_checks
       THEN wait' = DidNotComplete(wait)
       ELSE IF wait.elapsed_time > wait.max_wait_time
       THEN wait' = [ wait EXCEPT !.result =
                        [ raised |-> "Task " \o wait.task_id \o " timed out after "
                                     \o ToString(wait.max_wait_time) \o " seconds" ] ]
       ELSE \E response \in ServiceResponses, duration \in CheckDurations :
              \E outcome \in { CheckOutcome(response, wait.task_id) } :
                 \E checked \in { [ wait EXCEPT
                                      !.elapsed_time = @ + duration
                                          + (IF wait.i > 0 THEN wait.poll_interval ELSE 0),
                                      !.checks = @ + 1,
                                      !.last = response,
                                      !.last_does = outcome.does ] } :
                    wait' = IF outcome.does = "return"
                            THEN [ checked EXCEPT !.result = [ returned |-> outcome.value ] ]
                            ELSE IF outcome.does = "raise"
                            THEN [ checked EXCEPT !.result = [ raised |-> outcome.message ] ]
                            ELSE Continue(checked)
    /\ UNCHANGED << catalog_vars, request_vars, recommendation, analysis, analysis_call,
                    size_data, other_analysis, visual_vars, unreadable, http, pipeline >>

WaitNext == StatusCheck

\* the coroutine is awaited to its end: a sleep and a status check (request
\* timeout 30 s) both return
WaitSpec == WaitInit /\ [][WaitNext]_vars /\ WF_vars(StatusCheck)

-----------------------------------------------------------------------------
(* The providers of /process: KlingAI, the Hugging Face approaches and the  *)
(* demo result.                                                             *)

\* os.getenv(name, default) in an environment
getenv(environ, name, default) ==
    IF name \in DOMAIN environ THEN environ[name] ELSE default

\* main.py lines 57-59: the KlingAI configuration read at import
KlingConfiguration(environ) ==
    [ KLING_ACCESS_KEY |-> getenv(environ, "KLING_ACCESS_KEY",
                                  "AJeTKte39b4nNKTGmh8ErCQEb9yM9pDg"),
      KLING_SECRET_KEY |-> getenv(environ, "KLING_SECRET_KEY",
                                  "ef4G4CeGYfkDmTgfBdGhLJAkFCeGyANE"),
      USE_KLING_AI |-> TRUE ]

\* line 502: USE_KLING_AI and KLING_ACCESS_KEY and KLING_SECRET_KEY
KlingEnabled(config) ==
    config.USE_KLING_AI /\ config.KLING_ACCESS_KEY # "" /\ config.KLING_SECRET_KEY # ""

\* the result dict of a provider
ProviderResult(success, result_image, error) ==
    [ kind |-> "dict", success |-> success, result_image |-> result_image,
      error |-> error ]

\* a provider call that raised
ProviderRaised(message) == [ kind |-> "raised", message |-> message ]

\* process_virtual_tryon_kling, from what client.process_try_on gave and from
\* whether the download of the first image worked
process_virtual_tryon_kling(result, download) ==
    IF result.kind = "raised"
    THEN ProviderResult(FALSE, "", result.message)
    ELSE IF result.success
    THEN IF Len(result.images) > 0
         THEN IF download = "ok"
              THEN ProviderResult(TRUE, "data:image/png;base64," \o result.images[1], "")
              ELSE ProviderResult(TRUE, result.images[1], "")
         ELSE ProviderResult(FALSE, "", "No result images generated")
    ELSE ProviderResult(FALSE, "", result.error)

\* mutant: the direct API tried before the queue APIs
ApproachesDirectSecond ==
    << "Gradio Client", "Direct API", "Queue API", "Alternative Queue" >>

\* main.py lines 115-120: approaches
Approaches == << "Gradio Client", "Queue API", "Alternative Queue", "Direct API" >>

\* what a call of an approach can give: a result dict, or an exception out of
\* the part of its body that no try covers (call_gradio_client_api has none)
ApproachOutcomes(approach_name) ==
    { ProviderResult(TRUE, "image of " \o approach_name, ""),
      ProviderResult(FALSE, "", approach_name \o " failed") }
    \cup (IF approach_name = "Gradio Client" THEN {}
          ELSE { ProviderRaised(approach_name \o " crashed") })

\* what generate_demo_result can give
DemoOutcomes ==
    { ProviderResult(TRUE, "demo image", ""),
      ProviderResult(FALSE, "", "Demo generation failed") }

\* what client.process_try_on can give to process_virtual_tryon_kling
KlingClientResults ==
    { [ kind |-> "dict", success |-> TRUE, images |-> << "https://kling/1.png" >>,
        error |-> "" ],
      [ kind |-> "dict", success |-> TRUE, images |-> << >>, error |-> "" ],
      [ kind |-> "dict", success |-> FALSE, images |-> << >>,
        error |-> "Task failed: Image risk control" ],
      ProviderRaised("'str' object has no attribute 'get'") }

\* environments the service is started in
Environments ==
    { [ n \in {} |-> "" ],
      [ KLING_ACCESS_KEY |-> "" ],
      [ KLING_SECRET_KEY |-> "" ],
      [ KLING_ACCESS_KEY |-> "access", KLING_SECRET_KEY |-> "secret" ] }

\* the JSONResponse of /process for the result of a provider
ProcessResponse(result, provider) ==
    IF result.success
    THEN [ status_code |-> 200, success |-> TRUE, result_image |-> result.result_image,
           provider |-> provider ]
    ELSE [ status_code |-> 500, success |-> FALSE, result_image |-> "",
           provider |-> "" ]

\* a provider call and what it gave, as the run records it
ProviderCall(provider, result) ==
    [ provider |-> provider,
      success |-> (result.kind = "dict" /\ result.success),
      raised |-> (result.kind = "raised") ]

ProviderInit ==
    /\ shirt_measurements = InitShirtMeasurements
    /\ fit_tolerance = InitFitTolerance
    /\ person_chest = 930
    /\ person_height = 1750
    /\ gender = << "u", "n", "i", "s", "e", "x" >>
    /\ recommendation = None
    /\ analysis = None
    /\ analysis_call = None
    /\ size_data = None
    /\ other = None
    /\ other_analysis = None
    /\ person_image = None
    /\ garment_image = None
    /\ pose_landmarks = None
    /\ rendered = None
    /\ unreadable = {}
    /\ http = None
    /\ wait = None
    /\ \E environ \in Environments :
          pipeline = [ config |-> KlingConfiguration(environ), pc |-> "process", i |-> 0,
                       calls |-> << >>, response |-> None ]

\* process_virtual_tryon from line 502 to the call of call_huggingface_api:
\* KlingAI when it is enabled, and the response when it succeeded
TryKlingAI ==
    /\ pipeline # None
    /\ pipeline.pc = "process"
    /\ IF KlingEnabled(pipeline.config)
       THEN \E client_result \in KlingClientResults, download \in { "ok", "error" } :
               \E result \in { process_virtual_tryon_kling(client_result, download) } :
                  pipeline' =
                      IF result.success
                      THEN [ pipeline EXCEPT
                               !.calls = Append(@, ProviderCall("KlingAI", result)),
                               !.response = ProcessResponse(result, "ai_processing"),
                               !.pc = "done" ]
                      ELSE [ pipeline EXCEPT
                               !.calls = Append(@, ProviderCall("KlingAI", result)),
                               !.pc = "approach", !.i = 1 ]
       ELSE pipeline' = [ pipeline EXCEPT !.pc = "approach", !.i = 1 ]
    /\ UNCHANGED << catalog_vars, request_vars, recommendation, analysis, analysis_call,
                    size_data, other_analysis, visual_vars, unreadable, http, wait >>

\* one iteration of the loop of call_huggingface_api, lines 122-133, and the
\* response when the approach succeeded
TryApproach ==
    /\ pipeline # None
    /\ pipeline.pc = "approach"
    /\ \E result \in ApproachOutcomes(Approaches[pipeline.i]) :
          \E called \in { [ pipeline EXCEPT
                              !.calls = Append(@, ProviderCall(Approaches[pipeline.i],
                                                               result)) ] } :
             pipeline' =
                 IF result.kind = "dict" /\ result.success
                 THEN [ called EXCEPT
                          !.response = ProcessResponse(result, "fallback_service"),
                          !.pc = "done" ]
                 ELSE IF pipeline.i < Len(Approaches)
                 THEN [ called EXCEPT !.i = pipeline.i + 1 ]
                 ELSE [ called EXCEPT !.pc = "demo" ]
    /\ UNCHANGED << catalog_vars, request_vars, recommendation, analysis, analysis_call,
                    size_data, other_analysis, visual_vars, unreadable, http, wait >>

\* lines 135-137: generate_demo_result after the loop, and the response
GenerateDemoResult ==
    /\ pipeline # None
    /\ pipeline.pc = "demo"
    /\ \E result \in DemoOutcomes :
          pipeline' = [ pipeline EXCEPT
                          !.calls = Append(@, ProviderCall("Demo", result)),
                          !.response = ProcessResponse(result, "fallback_service"),
                          !.pc = "done" ]
    /\ UNCHANGED << catalog_vars, request_vars, recommendation, analysis, analysis_call,
                    size_data, other_analysis, visual_vars, unreadable, http, wait >>

ProviderNext == TryKlingAI \/ TryApproach \/ GenerateDemoResult

ProviderSpec == ProviderInit /\ [][ProviderNext]_vars

-----------------------------------------------------------------------------
(* The claims.  Every FitAnalysis the state holds: the one analyze_fit      *)
(* returned, and the per-size entries of the comparison data.               *)

\* the (chest difference, length difference, fit type, description, score) of
\* every analysis result in the state
Results ==
    (IF analysis = None THEN {}
     ELSE { [ cd |-> analysis.chest_difference_cm, ld |-> analysis.length_difference_cm,
              fit_type |-> analysis.fit_type, description |-> analysis.fit_description,
              score |-> analysis.fit_score, size |-> analysis.selected_size ] })
    \cup
    (IF size_data = None THEN {}
     ELSE { [ cd |-> size_data.size_analysis[s].chest_difference,
              ld |-> size_data.size_analysis[s].length_difference,
              fit_type |-> size_data.size_analysis[s].fit_type,
              description |-> size_data.size_analysis[s].fit_description,
              score |-> size_data.size_analysis[s].fit_score, size |-> s ]
            : s \in DOMAIN size_data.size_analysis })

\* C1: the fit_score of every analyze_fit result lies in the closed range
\* [0, 100] (0..1000 in tenths of a point).
C1_FitScoreInRange == \A r \in Results : 0 <= r.score /\ r.score <= 1000

\* analyze_fit has returned both a perfect score and the lowest score
C1_Witness ==
    /\ analysis # None /\ analysis.fit_score = 1000
    /\ size_data # None
    /\ \E s \in DOMAIN size_data.size_analysis : size_data.size_analysis[s].fit_score = 300

\* C2: a chest difference at or below tight_threshold is always TIGHT and one
\* at or above loose_threshold is always LOOSE, whatever the length difference.
C2_ThresholdPriority ==
    \A r \in Results :
        /\ r.cd <= fit_tolerance.tight_threshold => r.fit_type = FitType.TIGHT
        /\ r.cd >= fit_tolerance.loose_threshold => r.fit_type = FitType.LOOSE

\* both thresholds are met exactly, by results with different length differences
C2_Witness ==
    \E r1, r2 \in Results :
        /\ r1.cd = fit_tolerance.tight_threshold /\ r1.fit_type = FitType.TIGHT
        /\ r2.cd = fit_tolerance.loose_threshold /\ r2.fit_type = FitType.LOOSE
        /\ r1.ld # 0 /\ r2.ld # 0 /\ r1.ld # r2.ld

\* the person's chest equals the chest of the analysed size and 0.40 of the
\* person's height equals its length
ExactMatch ==
    /\ analysis # None
    /\ shirt_measurements[analysis.selected_size].chest_cm = person_chest
    /\ 10 * shirt_measurements[analysis.selected_size].length_cm = 4 * person_height

\* C3: when the person's chest equals the garment chest and 0.40 of the height
\* equals the garment length, both differences are 0; and whenever both
\* differences are 0 the fit is PERFECT with score exactly 100.
C3_ExactMatchIsPerfect ==
    /\ ExactMatch =>
          analysis.chest_difference_cm = 0 /\ analysis.length_difference_cm = 0
    /\ \A r \in Results :
          (r.cd = 0 /\ r.ld = 0) => (r.fit_type = FitType.PERFECT /\ r.score = 1000)

\* analyze_fit has returned the result of an exact match
C3_Witness ==
    /\ ExactMatch
    /\ analysis.fit_type = FitType.PERFECT
    /\ analysis.fit_score = 1000

\* the classification rules in priority order, first match wins
FirstMatch(cd) ==
    IF cd <= fit_tolerance.tight_threshold
    THEN << FitType.TIGHT, "This size will be tight and may restrict movement" >>
    ELSE IF cd >= fit_tolerance.loose_threshold
    THEN << FitType.LOOSE, "This size will be loose and may look oversized" >>
    ELSE IF cd <= fit_tolerance.perfect_range /\ -cd <= fit_tolerance.perfect_range
    THEN << FitType.PERFECT, "This size provides an excellent fit" >>
    ELSE IF cd > 0
    THEN << FitType.LOOSE, "This size will be somewhat loose but comfortable" >>
    ELSE << FitType.TIGHT, "This size will be somewhat snug but wearable" >>

\* C4: the fit type and description are those of the first matching rule in
\* the order tight threshold, loose threshold, perfect range, positive, else;
\* the fit type is one of the three, and PERFECT only within the perfect range.
C4_FirstMatchWins ==
    \A r \in Results :
        /\ << r.fit_type, r.description >> = FirstMatch(r.cd)
        /\ r.fit_type \in { FitType.TIGHT, FitType.PERFECT, FitType.LOOSE }
        /\ r.fit_type = FitType.PERFECT =>
              (r.cd <= fit_tolerance.perfect_range /\ -r.cd <= fit_tolerance.perfect_range)

\* the rules below the two thresholds all apply: a perfect fit at the edge of the
\* perfect range beside a somewhat loose fit, or a somewhat snug fit
C4_Witness ==
    /\ analysis # None
    /\ analysis.fit_description = "This size will be somewhat snug but wearable"
    /\ \E r \in Results :
          r.description = "This size will be somewhat loose but comfortable"
    /\ \E r \in Results : r.cd >= fit_tolerance.loose_threshold
    /\ \E r \in Results : r.cd <= fit_tolerance.tight_threshold

\* C5: fit_score = 100 - min(10 * |chest_difference|, 50)
\* - min(5 * |length_difference|, 20), and it is never below 30.
C5_ScoreFormula ==
    \A r \in Results :
        /\ r.score = 1000 - (IF 10 * Abs(r.cd) < 500 THEN 10 * Abs(r.cd) ELSE 500)
                          - (IF 5 * Abs(r.ld) < 200 THEN 5 * Abs(r.ld) ELSE 200)
        /\ r.score >= 300

\* both penalties are beyond their caps and the score is 30
C5_Witness ==
    /\ analysis # None
    /\ Abs(analysis.chest_difference_cm) > 50
    /\ Abs(analysis.length_difference_cm) > 40
    /\ analysis.fit_score = 300

\* C6: of two analyze_fit results with the same |length_difference|, the one
\* with the larger |chest_difference| never has the higher score; of two with
\* the same |chest_difference|, the one with the larger |length_difference|
\* never has the higher score.
C6_ScoreMonotone ==
    (analysis # None /\ other_analysis # None) =>
        LET cd1 == Abs(analysis.chest_difference_cm)
            ld1 == Abs(analysis.length_difference_cm)
            cd2 == Abs(other_analysis.chest_difference_cm)
            ld2 == Abs(other_analysis.length_difference_cm)
        IN  /\ (ld1 = ld2 /\ cd1 >= cd2) => analysis.fit_score <= other_analysis.fit_score
            /\ (ld1 = ld2 /\ cd1 <= cd2) => analysis.fit_score >= other_analysis.fit_score
            /\ (cd1 = cd2 /\ ld1 >= ld2) => analysis.fit_score <= other_analysis.fit_score
            /\ (cd1 = cd2 /\ ld1 <= ld2) => analysis.fit_score >= other_analysis.fit_score

\* two results with equal |length_difference|, chest differences of opposite
\* sign and different size, and strictly ordered scores
C6_Witness ==
    /\ analysis # None /\ other_analysis # None
    /\ Abs(analysis.length_difference_cm) = Abs(other_analysis.length_difference_cm)
    /\ analysis.chest_difference_cm < 0 /\ other_analysis.chest_difference_cm > 0
    /\ Abs(analysis.chest_difference_cm) > Abs(other_analysis.chest_difference_cm)
    /\ analysis.fit_score < other_analysis.fit_score

\* position of a size in the catalog's iteration order
CatalogIndex(size) ==
    CHOOSE i \in DOMAIN GarmentSize : GarmentSize[i] = size

\* distance of a catalog size's chest to the adjusted target of the last call
DistanceToTarget(size) ==
    Abs(shirt_measurements[size].chest_cm - recommendation.target_chest)

\* C7: get_recommended_size returns a catalog size whose chest is at minimal
\* distance from the adjusted target; of equally close sizes the one earlier
\* in catalog order; and every call for the same (chest, gender) returns it.
C7_ClosestSizeFirstWins ==
    recommendation # None =>
        /\ recommendation.best_size \in DOMAIN shirt_measurements
        /\ \A s \in DOMAIN shirt_measurements :
              /\ DistanceToTarget(recommendation.best_size) <= DistanceToTarget(s)
              /\ DistanceToTarget(recommendation.best_size) = DistanceToTarget(s)
                    => CatalogIndex(recommendation.best_size) <= CatalogIndex(s)
        /\ analysis # None => analysis.recommended_size = recommendation.best_size
        /\ size_data # None => size_data.recommended_size = recommendation.best_size

\* two catalog sizes are equally close to the target, and all three operations
\* have reported the recommended size
C7_Witness ==
    /\ recommendation # None /\ analysis # None /\ size_data # None
    /\ \E s \in DOMAIN shirt_measurements :
          /\ s # recommendation.best_size
          /\ DistanceToTarget(s) = DistanceToTarget(recommendation.best_size)

\* C8: the target chest is the chest plus 4 cm for male, 2 cm for female and
\* 3 cm for every other gender value (the comparison ignores letter case).
C8_ComfortAllowance ==
    recommendation # None =>
        recommendation.target_chest - person_chest =
            (IF gender \in { << "m", "a", "l", "e" >>, << "M", "A", "L", "E" >> } THEN 40
             ELSE IF gender = << "f", "e", "m", "a", "l", "e" >> THEN 20
             ELSE 30)

\* an unrecognised gender string got the allowance of unisex
C8_Witness ==
    /\ recommendation # None
    /\ gender = << "o", "t", "h", "e", "r" >>
    /\ recommendation.target_chest = person_chest + 30

\* the sizes the comparison data marks as recommended
MarkedRecommended ==
    { s \in DOMAIN size_data.size_analysis : size_data.size_analysis[s].is_recommended }

\* C9: the comparison data has exactly one entry per catalog size, exactly one
\* entry is marked is_recommended, and it is the size get_recommended_size
\* returns for the same chest and gender.
C9_OneRecommendedEntry ==
    size_data # None =>
        /\ DOMAIN size_data.size_analysis = { "XS", "S", "M", "L", "XL", "XXL" }
        /\ Len(size_data.keys) = 6
        /\ { size_data.keys[i] : i \in DOMAIN size_data.keys } = DOMAIN size_data.size_analysis
        /\ Cardinality(MarkedRecommended) = 1
        /\ MarkedRecommended = { size_data.recommended_size }
        /\ recommendation # None => MarkedRecommended = { recommendation.best_size }

\* the comparison data and get_recommended_size agree on a size other than the
\* default M
C9_Witness ==
    /\ size_data # None /\ recommendation # None
    /\ recommendation.best_size = "XL"
    /\ size_data.size_analysis["XL"].is_recommended

\* the request of the scenario: chest 93, height 175, male
Scenario ==
    /\ person_chest = 930 /\ person_height = 1750
    /\ gender = << "m", "a", "l", "e" >>

\* C10: for chest 93, height 175, male the recommended size is M; size M has
\* chest difference 4, length difference 0, is LOOSE ("somewhat loose but
\* comfortable") with score 60; size S has chest difference -2, is PERFECT
\* with score 100 - 20 - length penalty = 70.
C10_Scenario ==
    Scenario =>
        /\ recommendation # None => recommendation.best_size = "M"
        /\ analysis # None => analysis.recommended_size = "M"
        /\ size_data # None => size_data.recommended_size = "M"
        /\ \A r \in Results :
              /\ r.size = "M" =>
                    /\ r.cd = 40 /\ r.ld = 0
                    /\ r.fit_type = FitType.LOOSE
                    /\ r.description = "This size will be somewhat loose but comfortable"
                    /\ r.score = 600
              /\ r.size = "S" =>
                    /\ r.cd = -20
                    /\ r.fit_type = FitType.PERFECT
                    /\ r.score = 1000 - 200 - 5 * Abs(r.ld)
                    /\ r.score = 700

\* the scenario's request has been recommended a size, analysed for size S and
\* compared over all sizes
C10_Witness ==
    /\ Scenario
    /\ recommendation # None
    /\ analysis # None /\ analysis.selected_size = "S"
    /\ size_data # None /\ size_data.size_analysis["M"].fit_score = 600

\* C11: analyze_fit raises (Python's KeyError, the spec's UnknownSizeError) and
\* returns no FitAnalysis when the size argument is not in the catalog; for
\* every size in the catalog it raises nothing and returns a FitAnalysis whose
\* selected_size is the requested size.
C11_UnknownSizeRaises ==
    analysis_call # None =>
        IF analysis_call.selected_size \in { "XS", "S", "M", "L", "XL", "XXL" }
        THEN /\ analysis_call.raised = None
             /\ analysis # None
             /\ analysis.selected_size = analysis_call.selected_size
        ELSE /\ analysis_call.raised = Exception("KeyError")
             /\ analysis = None

\* analyze_fit was called with a size that is not in the catalog and raised
C11_Witness ==
    /\ analysis_call # None
    /\ analysis_call.selected_size = UnknownSize
    /\ analysis_call.raised = Exception("KeyError")
    /\ analysis = None

-----------------------------------------------------------------------------
(* Claims about apply_garment_overlay.                                      *)

\* the last compositing call was apply_garment_overlay
Overlaid == rendered # None /\ rendered.op = "apply_garment_overlay"

\* the person image is smaller than the computed placement rectangle (the
\* resized garment) on both axes
PersonSmallerOnBothAxes ==
    /\ Overlaid
    /\ person_image.shape[2] < rendered.frame.new_garment_w
    /\ person_image.shape[1] < rendered.frame.new_garment_h

\* C13 as stated: compositing with a person image smaller than the placement
\* rectangle on both axes fails (DegenerateGeometryError) and returns no image.
C13_SmallPersonFails ==
    PersonSmallerOnBothAxes =>
        (rendered.frame.raised # None /\ rendered.image = None)

\* C13 as amended: in that case no geometry error is raised; the rectangle is
\* clipped to the whole person image, the garment is resized again to the
\* person image's size and an image of the person image's shape is returned.
\* The only failure then is the IndexError of a landmark list of exactly 12
\* entries.
C13_SmallPersonIsClipped ==
    PersonSmallerOnBothAxes =>
        IF pose_landmarks # None /\ Len(pose_landmarks) = 12
        THEN rendered.frame.raised = Exception("IndexError") /\ rendered.image = None
        ELSE /\ rendered.frame.raised = None
             /\ rendered.frame.rect.start_x = 0 /\ rendered.frame.rect.start_y = 0
             /\ rendered.frame.rect.end_x = person_image.shape[2]
             /\ rendered.frame.rect.end_y = person_image.shape[1]
             /\ rendered.frame.resized_again
             /\ rendered.frame.garment_w = person_image.shape[2]
             /\ rendered.frame.garment_h = person_image.shape[1]
             /\ rendered.image # None
             /\ rendered.image.shape = person_image.shape

\* a person image smaller than the placement rectangle on both axes was
\* composited and an image was returned
C13_Witness ==
    /\ PersonSmallerOnBothAxes
    /\ rendered.frame.raised = None
    /\ rendered.image # None
    /\ rendered.frame.new_garment_w > 2 * person_image.shape[2]

\* C19: the transform parameters are those of the fit type's row (TIGHT:
\* scale 0.75 + chest_diff/20, alpha 0.95, width 0.90, height 1.05; LOOSE:
\* scale 1.00 + chest_diff/15, alpha 0.65, width 1.20, height 1.10; PERFECT:
\* 1.00, 0.80, 1.00, 1.00), and the garment is resized to (garment_w * scale *
\* width factor, garment_h * scale * height factor), each truncated to pixels.
C19_FitTypeParameters ==
    Overlaid =>
        LET cd == rendered.fit_analysis.chest_difference_cm
            fit_type == rendered.fit_analysis.fit_type
            q == rendered.frame.parameters
        IN  /\ fit_type = "tight" =>
                  /\ 200 * q.scale_factor = 600 * (150 + cd)
                  /\ q.alpha = 95 /\ q.width_adjustment = 90 /\ q.height_adjustment = 105
            /\ fit_type = "loose" =>
                  /\ 150 * q.scale_factor = 600 * (150 + cd)
                  /\ q.alpha = 65 /\ q.width_adjustment = 120 /\ q.height_adjustment = 110
            /\ fit_type = "perfect" =>
                  /\ q.scale_factor = 600
                  /\ q.alpha = 80 /\ q.width_adjustment = 100 /\ q.height_adjustment = 100
            /\ rendered.frame.new_garment_w
                  = Trunc(garment_image.shape[2] * q.scale_factor * q.width_adjustment, 60000)
            /\ rendered.frame.new_garment_h
                  = Trunc(garment_image.shape[1] * q.scale_factor * q.height_adjustment, 60000)

\* a loose fit was composited with a garment scaled up, width and height by
\* different factors
C19_Witness ==
    /\ Overlaid
    /\ rendered.fit_analysis.fit_type = "loose"
    /\ rendered.frame.raised = None
    /\ rendered.frame.parameters.scale_factor > 600
    /\ rendered.frame.new_garment_w * garment_image.shape[1]
          > rendered.frame.new_garment_h * garment_image.shape[2]

\* the caller supplied both shoulder landmarks (indices 11 and 12)
BothShouldersSupplied == pose_landmarks # None /\ Len(pose_landmarks) >= 13

\* the caller supplied no landmark list, or one without index 11
NoShoulderSupplied == pose_landmarks = None \/ Len(pose_landmarks) <= 11

\* the shift of the start y for a fit type: up from the shoulders, or from a
\* quarter of the person's height
ShoulderShift(fit_type) ==
    IF fit_type = "tight" THEN -10 ELSE IF fit_type = "loose" THEN -30 ELSE -20

QuarterShift(fit_type) ==
    IF fit_type = "tight" THEN 20 ELSE IF fit_type = "loose" THEN -20 ELSE 0

\* C20: with shoulder landmarks, center_x is the midpoint of the two shoulder
\* x-coordinates and the start y the average shoulder y shifted up by 10
\* (TIGHT), 30 (LOOSE), 20 (PERFECT); in the fallback layout center_x is
\* person_width/2 and the start y person_height/4 shifted by +20, -20, 0.
\* Each path yields an anchor for every fit type once the garment is resized.
C20_PlacementAnchor ==
    (Overlaid /\ rendered.frame.stage # "resize") =>
        LET f == rendered.frame
            fit_type == rendered.fit_analysis.fit_type
        IN  /\ BothShouldersSupplied =>
                  /\ f.raised = None /\ f.path = "landmarks"
                  /\ f.center_x = (Trunc(pose_landmarks[12].x, 2)
                                    + Trunc(pose_landmarks[13].x, 2)) \div 2
                  /\ f.anchor_y = Trunc(pose_landmarks[12].y + pose_landmarks[13].y, 4)
                                    + ShoulderShift(fit_type)
            /\ NoShoulderSupplied =>
                  /\ f.raised = None /\ f.path = "default"
                  /\ f.center_x = person_image.shape[2] \div 2
                  /\ f.anchor_y = (person_image.shape[1] \div 4) + QuarterShift(fit_type)

\* a tight fit was anchored by the fallback layout, 20 px below the quarter
C20_Witness ==
    /\ Overlaid
    /\ rendered.frame.raised = None
    /\ rendered.fit_analysis.fit_type = "tight"
    /\ rendered.frame.path = "default"
    /\ rendered.frame.anchor_y = (person_image.shape[1] \div 4) + 20
    /\ person_image.shape[1] >= 200

-----------------------------------------------------------------------------
(* Claims about create_size_comparison_grid, process_virtual_tryon_with_    *)
(* sizing and the frame of the operations.                                  *)

\* the last call was process_virtual_tryon_with_sizing
Processed == rendered # None /\ rendered.op = "process_virtual_tryon_with_sizing"

\* the label names the catalog size, in either case of its letters
NamesSize(label, size) == Lower(label) = Lower(SizeValue[size])

\* C12: for a size label that is not a catalog label, process_virtual_tryon_
\* with_sizing analyzes and composites size M and the label raises nothing;
\* for a label that names a catalog size exactly that size is analyzed.
C12_LabelFallsBackToM ==
    (Processed /\ unreadable = {}) =>
        /\ \A size \in GarmentSizes :
              NamesSize(rendered.selected_size, size) => rendered.size_enum = size
        /\ (\A size \in GarmentSizes : ~NamesSize(rendered.selected_size, size))
              => rendered.size_enum = "M"
        /\ rendered.raised # Exception("ValueError")
        /\ rendered.raised # Exception("KeyError")
        /\ rendered.result # None =>
              /\ rendered.result.fit_analysis.selected_size = rendered.size_enum
              /\ rendered.result.fit_analysis.chest_difference
                    = shirt_measurements[rendered.size_enum].chest_cm - person_chest
              /\ \E k \in DOMAIN rendered.result.try_on_result.encoded.writes :
                    LET w == rendered.result.try_on_result.encoded.writes[k]
                    IN  w.kind = "indicator" /\ w.selected_size = rendered.size_enum

\* a request for the label XXXL returned a result for size M
C12_Witness ==
    /\ Processed
    /\ rendered.selected_size = << "X", "X", "X", "L" >>
    /\ rendered.result # None
    /\ rendered.result.fit_analysis.selected_size = "M"

\* the size a tile shows: the one its fit indicator names
TileSize(tile) ==
    LET k == CHOOSE k \in DOMAIN tile.writes : tile.writes[k].kind = "indicator"
    IN  tile.writes[k].selected_size

\* the grids the state holds: the one create_size_comparison_grid returned
\* and the one in the result of process_virtual_tryon_with_sizing
Grids ==
    IF rendered = None THEN {}
    ELSE IF rendered.op = "create_size_comparison_grid" /\ rendered.raised = None
    THEN { rendered.grid }
    ELSE IF rendered.op = "process_virtual_tryon_with_sizing" /\ rendered.result # None
    THEN { rendered.result.comparison_grid.encoded }
    ELSE {}

\* C14: a grid returned by create_size_comparison_grid has exactly three
\* tiles, showing S, M and L from left to right, each 300 wide and 400 high,
\* and is 900 wide and 400 high whatever the sizes of the input images.
C14_GridIsThreeTiles ==
    \A grid \in Grids :
        /\ Len(grid.tiles) = 3
        /\ TileSize(grid.tiles[1]) = "S"
        /\ TileSize(grid.tiles[2]) = "M"
        /\ TileSize(grid.tiles[3]) = "L"
        /\ \A k \in 1..3 : grid.tiles[k].shape = << 400, 300 >>
        /\ grid.shape = << 400, 900 >>

\* a grid was returned for a person image of 40 by 60 pixels
C14_Witness ==
    /\ rendered # None
    /\ rendered.op = "create_size_comparison_grid"
    /\ rendered.raised = None
    /\ person_image.shape = << 60, 40 >>
    /\ rendered.grid.shape = << 400, 900 >>

\* C16: no call of get_recommended_size, analyze_fit, get_size_comparison_data,
\* apply_garment_overlay or create_size_comparison_grid changes the size
\* catalog, the tolerance configuration or the caller's person and garment
\* images.
C16_SourcesUnchanged ==
    [][ /\ shirt_measurements' = shirt_measurements
        /\ fit_tolerance' = fit_tolerance
        /\ person_image' = person_image
        /\ garment_image' = garment_image ]_vars

\* all five operations were called, the last one composited three overlays,
\* and the caller's images carry no write
C16_Witness ==
    /\ recommendation # None
    /\ analysis # None
    /\ size_data # None
    /\ rendered # None
    /\ rendered.op = "create_size_comparison_grid"
    /\ rendered.raised = None
    /\ \A k \in 1..3 : Len(rendered.grid.tiles[k].writes) = 2
    /\ person_image.writes = << >>
    /\ garment_image.writes = << >>

\* C17: when the person image or the garment image cannot be decoded, the
\* request raises the image-load error (ValueError) after the two imread
\* calls, before any fit analysis or compositing, and returns no result.
C17_UndecodableImageFailsFirst ==
    (Processed /\ unreadable # {}) =>
        /\ rendered.raised = Exception("ValueError")
        /\ rendered.calls = << "imread", "imread" >>
        /\ rendered.result = None

\* a request whose garment image alone could not be decoded has failed
C17_Witness ==
    /\ Processed
    /\ unreadable = { "garment_image_path" }
    /\ rendered.raised = Exception("ValueError")
    /\ rendered.result = None

-----------------------------------------------------------------------------
(* Claims about the web service.                                            *)

\* the last request went to a route protected by verify_credentials
ProtectedRequest == http # None /\ http.route \in ProtectedRoutes

\* the request carried the configured username and the configured password
ConfiguredCredentials ==
    /\ http.credentials # None
    /\ http.credentials.username = VALID_USERNAME
    /\ http.credentials.password = VALID_PASSWORD

\* C18: a request to a protected route is served only if both the username
\* and the password supplied equal the configured ones; with no credentials
\* or a wrong username or password it is answered 401 with the challenge
\* WWW-Authenticate: Basic and the handler of the route is not executed.
C18_ProtectedNeedsBoth ==
    ProtectedRequest =>
        /\ http.response.executed # {} => ConfiguredCredentials
        /\ ~ConfiguredCredentials =>
              /\ http.response.status_code = 401
              /\ http.response.headers = { << "WWW-Authenticate", "Basic" >> }
              /\ http.response.executed = {}

\* /process was requested with the configured username and a wrong password
\* and was answered 401
C18_Witness ==
    /\ ProtectedRequest
    /\ http.route = "/process"
    /\ http.credentials # None
    /\ http.credentials.username = VALID_USERNAME
    /\ http.credentials.password # VALID_PASSWORD
    /\ http.response.status_code = 401
    /\ http.response.executed = {}

-----------------------------------------------------------------------------
(* Further claims about apply_garment_overlay.                              *)

\* C21: the landmark-based placement is taken exactly when both shoulder
\* landmarks (indices 11 and 12) are supplied; for every other landmark input
\* the fallback layout is used and the call does not fail because of the
\* landmarks.
C21_LandmarksOrFallback ==
    (Overlaid /\ rendered.frame.stage # "resize") =>
        IF BothShouldersSupplied
        THEN rendered.frame.raised = None /\ rendered.frame.path = "landmarks"
        ELSE rendered.frame.raised = None /\ rendered.frame.path = "default"

\* C22: the rectangle used for blending satisfies 0 <= start_x <= end_x <=
\* person_width and 0 <= start_y <= end_y <= person_height, and whenever its
\* width or height differs from the resized garment's the garment is resized
\* again to exactly the rectangle's dimensions before blending.
C22_RectangleInsideImage ==
    (Overlaid /\ rendered.frame.raised = None) =>
        LET f == rendered.frame
        IN  /\ 0 <= f.rect.start_x /\ f.rect.start_x <= f.rect.end_x
            /\ f.rect.end_x <= person_image.shape[2]
            /\ 0 <= f.rect.start_y /\ f.rect.start_y <= f.rect.end_y
            /\ f.rect.end_y <= person_image.shape[1]
            /\ f.garment_w = f.rect.end_x - f.rect.start_x
            /\ f.garment_h = f.rect.end_y - f.rect.start_y
            /\ f.resized_again <=> (f.garment_w # f.new_garment_w
                                    \/ f.garment_h # f.new_garment_h)

\* a garment that fits in width but not in height was clipped in height only
\* and resized again
C22_Witness ==
    /\ Overlaid
    /\ rendered.frame.raised = None
    /\ rendered.frame.resized_again
    /\ rendered.frame.garment_w = rendered.frame.new_garment_w
    /\ rendered.frame.garment_h < rendered.frame.new_garment_h
    /\ rendered.frame.garment_h = person_image.shape[1]
    /\ rendered.frame.rect.start_x > 0

\* C23: the tight scale factor has no floor: for a FitAnalysis with a chest
\* difference of -15 cm or less the scale factor is zero or negative and the
\* resize dimensions are not positive.
C23_TightScaleNotFloored ==
    (Overlaid /\ rendered.fit_analysis.chest_difference_cm <= -150) =>
        /\ rendered.fit_analysis.fit_type = "tight"
        /\ rendered.frame.parameters.scale_factor <= 0
        /\ rendered.frame.new_garment_w <= 0
        /\ rendered.frame.new_garment_h <= 0

\* size XS was composited for a person chest of 101 cm or more and the scale
\* factor was negative
C23_Witness ==
    /\ Overlaid
    /\ rendered.fit_analysis.selected_size = "XS"
    /\ person_chest >= 1010
    /\ rendered.frame.parameters.scale_factor < 0
    /\ rendered.frame.new_garment_w < 0
    /\ rendered.frame.raised # None

-----------------------------------------------------------------------------
(* Claims about KlingAIClient.wait_for_completion.                          *)

\* the last status check got an error of get_task_status that is neither a
\* timeout nor a reported task failure: a non-200 HTTP status or an error code
OtherStatusError ==
    /\ wait # None
    /\ wait.last # None
    /\ wait.last.kind = "answer"
    /\ (wait.last.status_code # 200 \/ wait.last.code # 0)

\* C25: an error of a status check that is neither a timeout nor a reported
\* task failure does not abort the wait: polling continues with the next check.
C25_OtherErrorsSwallowed ==
    OtherStatusError => wait.last_does = "continue"

\* the last status check reported this task_status
Reported(task_status) ==
    /\ wait # None
    /\ wait.last # None
    /\ wait.last.kind = "answer"
    /\ wait.last.status_code = 200
    /\ wait.last.code = 0
    /\ wait.last.data # None
    /\ wait.last.data.task_status = task_status

\* C26: a check reporting 'succeed' with an empty image list ends the wait at
\* that check by raising 'No images found in successful result'; a check
\* reporting 'failed' ends it at that check by raising 'Task failed'.
C26_EmptySuccessAndFailureEndTheWait ==
    /\ (Reported("succeed") /\ Len(wait.last.data.images) = 0) =>
          /\ wait.last_does = "raise"
          /\ wait.result.raised = "No images found in successful result"
    /\ Reported("failed") =>
          /\ wait.last_does = "raise"
          /\ SubSeq(wait.result.raised, 1, 11) = "Task failed"

\* the call has returned
WaitReturned == wait # None /\ wait.result # None /\ "returned" \in DOMAIN wait.result

\* the call has raised
WaitRaised == wait # None /\ wait.result # None /\ "raised" \in DOMAIN wait.result

\* C27: wait_for_completion makes at most max_wait_time // poll_interval
\* status checks and always terminates; it returns a success result only when
\* a check reported 'succeed' with a non-empty image list and ends by raising
\* in every other case.
C27_WaitTerminates ==
    /\ [](/\ wait.checks <= wait.max_wait_time \div wait.poll_interval
          /\ (wait.max_wait_time = 600 /\ wait.poll_interval = 15) => wait.checks <= 40
          /\ WaitReturned =>
                /\ Reported("succeed")
                /\ Len(wait.last.data.images) > 0
                /\ wait.result.returned.success
                /\ wait.result.returned.images = wait.last.data.images
          /\ wait.result # None => (WaitReturned \/ WaitRaised))
    /\ <>(wait.result # None)

\* with the defaults the service never finished the task: the wait ended
\* after its 40th check by raising
C27_Witness ==
    /\ WaitRaised
    /\ wait.max_wait_time = 600
    /\ wait.checks = 40
    /\ wait.last_does = "continue"
    /\ wait.result.raised = "Task did not complete within 600 seconds"

-----------------------------------------------------------------------------
(* Claims about the order of the per-size evaluations.                      *)

\* the orders in which three evaluations can be executed
Orders == { p \in [ 1..3 -> 1..3 ] : \A i, j \in 1..3 : p[i] = p[j] => i = j }

\* the per-size evaluations of the grid executed in the order p on the
\* caller's images, and their results put back at the places of the sizes
GridEvaluatedIn(p) ==
    The({ IF loop.raised # None
          THEN [ raised |-> loop.raised, tiles |-> None ]
          ELSE [ raised |-> None,
                 tiles |-> [ k \in 1..3 |->
                               Resize(loop.images[CHOOSE i \in 1..3 : p[i] = k],
                                      target_width, target_height) ] ]
          : loop \in { GridLoop([ person |-> person_image, garment |-> garment_image ],
                                [ i \in 1..3 |-> SizesToShow[p[i]] ], 1, << >>,
                                shirt_measurements, fit_tolerance, person_chest,
                                person_height, gender, pose_landmarks) } })

\* the evaluation of one size of the grid alone, on the caller's images
TileAlone(size) ==
    The({ IF out.frame.raised # None THEN None
          ELSE Resize(out.heap[out.returned], target_width, target_height)
          : out \in { apply_garment_overlay(
                          [ person |-> person_image, garment |-> garment_image ],
                          analyze_fit(shirt_measurements, fit_tolerance, person_chest,
                                      person_height, size, gender),
                          pose_landmarks) } })

-----------------------------------------------------------------------------
(* Claims about the recommended size.                                       *)

\* analyze_fit was called for the size it recommends, for a person whose
\* adjusted target lies within the chest range of the catalog
RecommendedAnalysedInRange ==
    /\ analysis # None
    /\ analysis.selected_size = analysis.recommended_size
    /\ TargetChest(person_chest, gender) >= 860
    /\ TargetChest(person_chest, gender) <= 1120

\* C29: when chest + allowance lies within [86, 112], the size returned by
\* get_recommended_size is never classified TIGHT by analyze_fit and never
\* reaches the loose threshold: its chest_difference lies in [-1, 7], so it is
\* PERFECT or "somewhat loose".
C29_RecommendedNeverTight ==
    RecommendedAnalysedInRange =>
        /\ analysis.selected_size = get_recommended_size(shirt_measurements, person_chest,
                                                         gender)
        /\ analysis.chest_difference_cm >= -10
        /\ analysis.chest_difference_cm <= 70
        /\ analysis.chest_difference_cm < fit_tolerance.loose_threshold
        /\ analysis.fit_type # FitType.TIGHT
        /\ \/ analysis.fit_type = FitType.PERFECT
           \/ /\ analysis.fit_type = FitType.LOOSE
              /\ analysis.fit_description
                    = "This size will be somewhat loose but comfortable"

\* a woman of chest 92 is recommended S, one centimetre under her chest, and a
\* man of chest 90.5 is recommended M, 6.5 centimetres over his
C29_Witness ==
    /\ RecommendedAnalysedInRange
    /\ \/ /\ person_chest = 920
          /\ analysis.selected_size = "S"
          /\ analysis.chest_difference_cm = -10
          /\ analysis.fit_type = FitType.PERFECT
       \/ /\ person_chest = 905
          /\ analysis.selected_size = "M"
          /\ analysis.chest_difference_cm = 65
          /\ analysis.fit_type = FitType.LOOSE

\* the place of a size among the keys of the last comparison
KeyIndex(s) == CHOOSE i \in DOMAIN size_data.keys : size_data.keys[i] = s

\* the distance of the chest of an entry from the adjusted target
TargetDistance(s) ==
    Abs(size_data.size_analysis[s].measurements.chest - TargetChest(person_chest, gender))

\* C30 as stated: the entry marked is_recommended has a fit_score greater than
\* or equal to the fit_score of every other entry.
C30_RecommendedScoresHighest ==
    size_data # None =>
        \A r \in MarkedRecommended :
            \A s \in DOMAIN size_data.size_analysis :
                size_data.size_analysis[r].fit_score >= size_data.size_analysis[s].fit_score

\* C30, amended: exactly one entry is marked is_recommended, the one of the
\* size get_recommended_size returns; its chest is at least as close to
\* chest + allowance as the chest of every other entry, and closer than the
\* chest of every entry before it in catalog order. Its fit_score is measured
\* against the chest itself and can be lower than the fit_score of another entry.
C30_RecommendedIsClosestToTarget ==
    size_data # None =>
        /\ MarkedRecommended = { size_data.recommended_size }
        /\ \A r \in MarkedRecommended :
              \A s \in DOMAIN size_data.size_analysis :
                  /\ TargetDistance(r) <= TargetDistance(s)
                  /\ KeyIndex(s) < KeyIndex(r) => TargetDistance(r) < TargetDistance(s)

\* a man of chest 93 and height 175: M is marked recommended and scores 60,
\* S is not and scores 70
C30_Witness ==
    /\ size_data # None
    /\ person_chest = 930
    /\ person_height = 1750
    /\ MarkedRecommended = { "M" }
    /\ size_data.size_analysis["M"].fit_score = 600
    /\ size_data.size_analysis["S"].fit_score = 700

-----------------------------------------------------------------------------
(* Claims about the order of the providers of /process.                     *)

\* the names of the providers called so far, in the order of the calls
ProvidersCalled == [ k \in DOMAIN pipeline.calls |-> pipeline.calls[k].provider ]

\* the names of the Hugging Face approaches and of the demo result, in order
FallbackOrder ==
    << "Gradio Client", "Queue API", "Alternative Queue", "Direct API", "Demo" >>

\* the calls so far follow the given order from its start
CalledInOrder(order) ==
    /\ Len(pipeline.calls) <= Len(order)
    /\ ProvidersCalled = SubSeq(order, 1, Len(pipeline.calls))

\* every call but the last one did not succeed, and a run that ended on a
\* call that did not succeed ended on the demo result
StopsAtFirstSuccess ==
    /\ \A k \in DOMAIN pipeline.calls :
          k < Len(pipeline.calls) => ~pipeline.calls[k].success
    /\ pipeline.response # None =>
          /\ Len(pipeline.calls) > 0
          /\ pipeline.response.success = pipeline.calls[Len(pipeline.calls)].success
          /\ ~pipeline.response.success =>
                pipeline.calls[Len(pipeline.calls)].provider = "Demo"

\* C28 as stated: KlingAI is tried first, and the Hugging Face fallback is
\* invoked only after KlingAI reported failure or raised; the approaches
\* follow in the order Gradio Client, Queue API, Alternative Queue, Direct
\* API up to the first success, and the demo result comes after all four.
C28_KlingAlwaysFirst ==
    /\ CalledInOrder(<< "KlingAI" >> \o FallbackOrder)
    /\ StopsAtFirstSuccess

\* C28, amended: when KlingAI is enabled and both keys are non-empty, KlingAI
\* is tried first, its result is returned if it succeeds, and the fallback is
\* invoked after it reported failure; otherwise KlingAI is not tried and the
\* fallback is invoked at once. Inside the fallback the approaches are tried
\* in the order Gradio Client, Queue API, Alternative Queue, Direct API up to
\* the first that reports success, a crashing approach does not stop the
\* sequence, and the demo result is generated only after all four failed.
C28_ProviderOrder ==
    /\ IF KlingEnabled(pipeline.config)
       THEN /\ CalledInOrder(<< "KlingAI" >> \o FallbackOrder)
            /\ pipeline.pc # "process" => Len(pipeline.calls) >= 1
            /\ (Len(pipeline.calls) >= 1 /\ pipeline.calls[1].success) =>
                  /\ Len(pipeline.calls) = 1
                  /\ pipeline.response # None
                  /\ pipeline.response.provider = "ai_processing"
       ELSE CalledInOrder(FallbackOrder)
    /\ StopsAtFirstSuccess
    /\ \A k \in DOMAIN pipeline.calls :
          pipeline.calls[k].raised =>
              /\ pipeline.calls[k].provider \in
                     { "Queue API", "Alternative Queue", "Direct API" }
              /\ pipeline.pc = "done" => Len(pipeline.calls) > k
    /\ \A k \in DOMAIN pipeline.calls :
          pipeline.calls[k].provider = "Demo" =>
              /\ k >= 5
              /\ \A a \in 1..4 :
                    /\ pipeline.calls[k - a].provider = FallbackOrder[5 - a]
                    /\ ~pipeline.calls[k - a].success

\* KlingAI reported failure, the Queue API crashed, the other approaches
\* failed and the demo result was returned
C28_Witness ==
    /\ pipeline.pc = "done"
    /\ Len(pipeline.calls) = 6
    /\ pipeline.calls[1].provider = "KlingAI"
    /\ pipeline.calls[3].raised
    /\ pipeline.calls[6].provider = "Demo"
    /\ pipeline.response.success
    /\ pipeline.response.provider = "fallback_service"

=============================================================================
